---- MODULE Spec2Model ----
(***************************************************************************)
(* Verification model of JorritvanGils/DistributedTraining2.               *)
(*                                                                         *)
(*   SpecMiner   neurons/miner.py: the AllReduce RPC handler, the training *)
(*               worker thread and the upload future of one miner process. *)
(*   SpecAvg     averaging/avg_handler.py: one AveragingHandler running    *)
(*               miner-side or validator-side rounds, with model loaders.  *)
(*   SpecScores  averaging/avg_handler.py: calculate_allreduce_scores.     *)
(*   SpecUpload  neurons/miner.py: the miner process of SpecMiner with     *)
(*               upload_model run step by step on the upload thread.       *)
(*   SpecTags    neurons/miner.py: one submitted upload_model call on a    *)
(*               repository that already holds tags.                       *)
(*   SpecCache   template/utils/misc.py: one function wrapped by ttl_cache *)
(*               and called as wall-clock time passes.                     *)
(*   SpecReward  validator/reward.py: one score_uid call.                  *)
(*   SpecFetch   neurons/miner.py: one Miner.fetch_training_data call.     *)
(*   SpecBlacklist  neurons/miner.py: one Miner.blacklist_base call.       *)
(*   SpecGrad    template/utils/misc.py: one use of the scope              *)
(*               DTGradientAverager.use_averaged_gradients.                *)
(*   SpecSync    neurons/miner.py: the construction of a miner up to       *)
(*               _sync_with_global_model, then its training and uploads.   *)
(*   SpecExecutor  neurons/miner.py: the training executor of one miner    *)
(*               whose training is started more than once.                 *)
(*                                                                         *)
(* Each specification moves only its own group of variables; the other     *)
(* groups keep their initial values.                                       *)
(***************************************************************************)
EXTENDS Integers, Sequences, FiniteSets, TLC

VARIABLES
    \* ---- neurons/miner.py: Miner ----
    epoch,                      \* local_progress.epoch
    inner_step,                 \* local_progress.inner_step
    samples_accumulated,        \* local_progress.samples_accumulated
    training_active,            \* threading.Event: set = TRUE
    training_status,            \* TrainingStatus
    training_error,
    stop_event,
    training_lock,              \* asyncio.Lock: 0 = free, else the holding request
    loop_owner,                 \* the coroutine running on the axon event loop (0 = none)
    current_upload_future,      \* "None" | "pending" | "running" | "done" | "cancelled"
    all_reduce_success_status,  \* "unset" | "False"
    ar_pc,                      \* per request: position inside Miner.all_reduce
    completion,                 \* per request: synapse.completion
    ar_exc,                     \* per request: the exception in flight
    ar_result,                  \* per request: "none" | "returned" | "raised"
    ar_cause,                   \* per request: what failed inside the handler (history)
    epoch_at_entry,             \* per request: local_progress.epoch when the call began
    round_would,                \* per request: what a delegated round would meet
    worker_pc,                  \* position of the thread of training_executor
    workers_queued,             \* _training_worker submissions waiting for the thread
    block_list_len,             \* len(model.config.block_list)
    batches_left,               \* batches of the fetched dataset not yet consumed
    starts_left,                \* start_continuous_training calls still to come
    \* ---- neurons/miner.py: Miner.upload_model on the thread of upload_executor ----
    upload_args,                \* epoch and inner_step of the last submitted call
    up_pc,                      \* position of the thread inside upload_model
    attempt,                    \* the local attempt
    up_exc,                     \* the attempt whose error is in flight (0 = none)
    up_result,                  \* "none" | "True" | "False" | "raised"
    slept,                      \* the retry delays slept by the running call
    config_inner_step,          \* model.config.inner_step
    saved_blocks,               \* len(block_list) in the configuration last saved
    repo,                       \* the hosted repository exists
    tags,                       \* names of the tags of the hosted repository
    hub_calls,                  \* hosting-service functions the running call has called
    active_at_entry,            \* training_active when the running call began
    \* ---- averaging/avg_handler.py: AveragingHandler ----
    role,                       \* "miner" | "validator": which rounds this handler runs
    has_manager,                \* model_loading_manager is not None
    is_loading,                 \* model_loading_manager.is_loading
    weights,                    \* _get_weights_sample() of self.model
    avg_loop_owner,             \* the round running on the event loop (0 = none)
    rounds,                     \* per round: the locals of run_*_allreduce
    ld_pc,                      \* per loader thread: position of a model load
    \* ---- AveragingHandler.calculate_allreduce_scores ----
    sc_pc,                      \* position of the call
    has_event,                  \* whether the handler has an event attribute
    event,                      \* self.event
    participating_peers,        \* argument
    failed_peers,               \* argument
    peerids_to_uids,            \* argument
    modes,                      \* argument (optional)
    bandwidths,                 \* argument (optional)
    scores,                     \* the dict returned
    all_reduce_scores,          \* self.all_reduce_scores
    sc_exc,                     \* the exception the call raised
    \* ---- template/utils/misc.py: ttl_cache ----
    time_now,                   \* time.time(), in seconds
    cache_args,                 \* maxsize and ttl given to ttl_cache
    start_time,                 \* start_time of the generator (-1: not started)
    lru,                        \* entries of lru_cache, least recently used first
    first_returned,             \* per argument: time of the first call that returned
    last_computed,              \* per argument: time of the last computed value
    last_invoked,               \* per argument: time the wrapped function last ran
    last_call,                  \* the last call of the wrapper and what it met
    \* ---- validator/reward.py: score_uid ----
    has_repo,                   \* uid_tracker[uid]["model_huggingface_id"] is not None
    repo_commits,               \* the commits of the repository, newest first
    su_pc,                      \* position of the call
    model,                      \* self.model: the revision loaded and the blocks replayed on it
    model_final,                \* model_final: the revision loaded (0: not loaded)
    blocks,                     \* blocks
    block_idx,                  \* index of the block of the running iteration
    validator_samples,          \* local_progress.samples_accumulated of the validator
    su_cause,                   \* what raised inside the replay loop
    su_result,                  \* the value returned
    su_exc,                     \* the exception that left the call
    \* ---- neurons/miner.py: Miner.fetch_training_data ----
    retry_limit,                \* self.retry_limit
    retry_delay,                \* self.retry_delay
    current_block,              \* self.current_block
    fd_pc,                      \* position of the call
    fd_attempt,                 \* the local attempt
    fd_tries,                   \* passes through the try block so far
    fd_error,                   \* the exception being handled, then the last one handled
    fd_slept,                   \* the delays slept
    fd_result,                  \* the value returned
    fd_exc,                     \* the exception that left the call
    \* ---- neurons/miner.py: Miner.blacklist_base ----
    metagraph,                  \* per UID (from 0): the hotkey of its axon and its stake
    force_validator_permit,     \* config.blacklist.force_validator_permit
    allow_non_registered,       \* config.blacklist.allow_non_registered
    vpermit_tao_limit,          \* config.neuron.vpermit_tao_limit
    caller,                     \* synapse.dendrite.hotkey
    bl_result,                  \* the value returned (<<>>: not called yet)
    \* ---- neurons/miner.py: Miner._sync_with_global_model ----
    global_epoch,               \* global_progress.epoch
    schema_match,               \* the two compute_schema_hash values are equal
    sync_pc,                    \* "ready" | "done" | "raised"
    peer_loaded,                \* load_state_from_peer was called
    \* ---- template/utils/misc.py: DTGradientAverager.use_averaged_gradients ----
    param_device,               \* per parameter: param.device
    had_grad,                   \* per parameter: param.grad was a tensor on entry
    param_grad,                 \* per parameter: the tensor param.grad refers to
    data,                       \* per tensor: its contents
    averaged_len,               \* len(averaged_grads)
    old_grads,                  \* old_grads
    uag_pc,                     \* position inside the scope
    uag_k,                      \* index of the assignment loop
    uag_exc,                    \* the exception in flight, then the one that left
    touched                     \* parameters whose gradient the wrapped step used

progressVars == <<epoch, inner_step, samples_accumulated>>
controlVars == <<training_active, training_status, training_error, stop_event>>
loopVars == <<training_lock, loop_owner>>
handlerVars == <<ar_pc, completion, ar_exc, ar_result, ar_cause, epoch_at_entry,
                 round_would, all_reduce_success_status>>
workerVars == <<worker_pc, workers_queued, block_list_len, batches_left, starts_left>>
minerVars == <<progressVars, controlVars, loopVars, handlerVars, workerVars,
               current_upload_future>>

avgVars == <<role, has_manager, is_loading, weights, avg_loop_owner, rounds,
             ld_pc>>

scoreVars == <<sc_pc, has_event, event, participating_peers, failed_peers,
               peerids_to_uids, modes, bandwidths, scores, all_reduce_scores, sc_exc>>

uploadRun == <<up_pc, attempt, up_exc, up_result, slept, config_inner_step, saved_blocks, repo, tags,
               hub_calls, active_at_entry>>
uploadVars == <<upload_args, uploadRun>>

cacheVars == <<time_now, cache_args, start_time, lru, first_returned, last_computed,
               last_invoked, last_call>>

rewardVars == <<has_repo, repo_commits, su_pc, model, model_final, blocks, block_idx,
                validator_samples, su_cause, su_result, su_exc>>

fetchVars == <<retry_limit, retry_delay, current_block, fd_pc, fd_attempt, fd_tries,
               fd_error, fd_slept, fd_result, fd_exc>>

blacklistVars == <<metagraph, force_validator_permit, allow_non_registered,
                   vpermit_tao_limit, caller, bl_result>>

syncVars == <<global_epoch, schema_match, sync_pc, peer_loaded>>

gradVars == <<param_device, had_grad, param_grad, data, averaged_len, old_grads,
              uag_pc, uag_k, uag_exc, touched>>

moreVars == <<syncVars, gradVars>>

extraVars == <<cacheVars, rewardVars, fetchVars, blacklistVars, moreVars>>

notMinerVars == <<avgVars, scoreVars, uploadVars, extraVars>>
notAvgVars == <<minerVars, scoreVars, uploadVars, extraVars>>
notScoreVars == <<minerVars, avgVars, uploadVars, extraVars>>

vars == <<minerVars, avgVars, scoreVars, uploadVars, extraVars>>

(***************************************************************************)
(* Bounds of the model.                                                    *)
(***************************************************************************)
NumRequests == 2        \* AllReduce RPCs that arrive
MaxInitEpoch == 0       \* epochs 0..MaxInitEpoch recovered at construction
MaxInnerStep == 1       \* the worker stops taking inner steps here
MaxStarts == 1          \* calls of start_continuous_training
MaxBlocks == 2          \* cap of len(block_list)
BatchesPerDataset == 1  \* batches a fetched dataset yields
target_n_blocks == 1    \* config.neuron.target_n_blocks
local_batch_size_train == 1            \* config.neuron.local_batch_size_train
local_batch_size_train_effective == local_batch_size_train  \* one batch fills it

Requests == 1..NumRequests

(***************************************************************************)
(* The call at miner.py:601-606 passes three positional arguments; the     *)
(* method at avg_handler.py:268-270 takes one besides self.                *)
(***************************************************************************)
CallArgs == 3
RoundParams == 1
CallBinds == CallArgs = RoundParams

\* What a round delegated to the averaging handler would meet: "ok" is an averaging
\* step that succeeds and a weight sample that changes without not-a-number values.
RoundConditions == {"ok", "fails"}

\* What run_miner_allreduce gives its caller: the completed synapse, or AllReduceError.
RoundOutcome(rw) == IF rw = "ok" THEN "completed" ELSE "AllReduceError"

(***************************************************************************)
(* Miner.start_background_upload and the thread of upload_executor.        *)
(***************************************************************************)
UploadInFlight(f) == f \in {"pending", "running"}

\* A request that is submitted whatever the state of the previous future.
start_background_uploadUnchecked(f) == "pending"

start_background_upload(f) == IF UploadInFlight(f) THEN f ELSE "pending"

\* the arguments upload_executor.submit(self.upload_model, epoch, inner_step, ...)
\* hands over when the request is not dropped
submitted(f, args, e, s) ==
    IF UploadInFlight(f) THEN args ELSE [epoch |-> e, inner_step |-> s]

\* Future.cancel(): only a future that has not started running is cancelled.
FutureCancel(f) == IF f = "pending" THEN "cancelled" ELSE f

UploadBegin ==
    /\ current_upload_future = "pending"
    /\ current_upload_future' = "running"
    /\ UNCHANGED <<notMinerVars, progressVars, controlVars, loopVars, handlerVars, workerVars>>

UploadEnd ==
    /\ current_upload_future = "running"
    /\ current_upload_future' = "done"
    /\ UNCHANGED <<notMinerVars, progressVars, controlVars, loopVars, handlerVars, workerVars>>

(***************************************************************************)
(* Miner.start_continuous_training, the stop flag, Miner._training_worker. *)
(***************************************************************************)
start_continuous_training ==
    /\ starts_left > 0
    /\ starts_left' = starts_left - 1
    /\ IF training_status # "RUNNING"
       THEN /\ training_status' = "RUNNING"
            /\ training_error' = "None"
            /\ workers_queued' = workers_queued + 1
       ELSE UNCHANGED <<training_status, training_error, workers_queued>>
    /\ UNCHANGED <<notMinerVars, progressVars, training_active, stop_event, loopVars, handlerVars,
                   worker_pc, block_list_len, batches_left, current_upload_future>>

SetStopEvent ==
    /\ ~stop_event
    /\ worker_pc # "none"
    /\ stop_event' = TRUE
    /\ UNCHANGED <<notMinerVars, progressVars, training_active, training_status, training_error,
                   loopVars, handlerVars, workerVars, current_upload_future>>

\* WorkerBegin on an executor with a second thread: a submitted worker starts
\* whether or not one is executing.
WorkerBeginSecondThread ==
    /\ workers_queued > 0
    /\ workers_queued' = workers_queued - 1
    /\ worker_pc' = "loop"
    /\ UNCHANGED <<notMinerVars, progressVars, controlVars, loopVars, handlerVars,
                   block_list_len, batches_left, starts_left, current_upload_future>>

\* The single thread of training_executor (max_workers=1) takes the next submitted
\* worker when the one it was executing has returned.
WorkerBegin ==
    /\ worker_pc = "none"
    /\ workers_queued > 0
    /\ workers_queued' = workers_queued - 1
    /\ worker_pc' = "loop"
    /\ UNCHANGED <<notMinerVars, progressVars, controlVars, loopVars, handlerVars,
                   block_list_len, batches_left, starts_left, current_upload_future>>

\* while not self.stop_event.is_set():
WorkerLoop ==
    /\ worker_pc = "loop"
    /\ worker_pc' = IF stop_event THEN "final" ELSE "wait1"
    /\ UNCHANGED <<notMinerVars, progressVars, controlVars, loopVars, handlerVars, workers_queued,
                   block_list_len, batches_left, starts_left, current_upload_future>>

\* self.training_active.wait()
WorkerWait1 ==
    /\ worker_pc = "wait1"
    /\ training_active
    /\ worker_pc' = "periodic"
    /\ UNCHANGED <<notMinerVars, progressVars, controlVars, loopVars, handlerVars, workers_queued,
                   block_list_len, batches_left, starts_left, current_upload_future>>

\* Periodic model upload
WorkerPeriodic ==
    /\ worker_pc = "periodic"
    /\ current_upload_future' =
          IF block_list_len >= target_n_blocks
          THEN start_background_upload(current_upload_future)
          ELSE current_upload_future
    /\ upload_args' =
          IF block_list_len >= target_n_blocks
          THEN submitted(current_upload_future, upload_args, epoch, inner_step)
          ELSE upload_args
    /\ worker_pc' = "fetch"
    /\ UNCHANGED <<avgVars, scoreVars, extraVars, uploadRun, progressVars, controlVars, loopVars, handlerVars, workers_queued,
                   block_list_len, batches_left, starts_left>>

\* dataset = run_until_complete(self.fetch_training_data()): a dataset, or the error
WorkerFetch ==
    /\ worker_pc = "fetch"
    /\ \E ok \in BOOLEAN : worker_pc' = IF ok THEN "wait2" ELSE "except"
    /\ UNCHANGED <<notMinerVars, progressVars, controlVars, loopVars, handlerVars, workers_queued,
                   block_list_len, batches_left, starts_left, current_upload_future>>

WorkerWait2 ==
    /\ worker_pc = "wait2"
    /\ training_active
    /\ worker_pc' = "append"
    /\ UNCHANGED <<notMinerVars, progressVars, controlVars, loopVars, handlerVars, workers_queued,
                   block_list_len, batches_left, starts_left, current_upload_future>>

\* self.model.config.block_list.append(self.current_block)
WorkerAppend ==
    /\ worker_pc = "append"
    /\ block_list_len < MaxBlocks
    /\ block_list_len' = block_list_len + 1
    /\ batches_left' = BatchesPerDataset
    /\ worker_pc' = "batch"
    /\ UNCHANGED <<notMinerVars, progressVars, controlVars, loopVars, handlerVars, workers_queued,
                   starts_left, current_upload_future>>

\* _process_training_batch: for inputs, labels in dataset: if not active: break
WorkerBatch ==
    /\ worker_pc = "batch"
    /\ worker_pc' = IF batches_left = 0 \/ ~training_active THEN "loop" ELSE "fwd"
    /\ UNCHANGED <<notMinerVars, progressVars, controlVars, loopVars, handlerVars, workers_queued,
                   block_list_len, batches_left, starts_left, current_upload_future>>

\* forward, backward, samples_accumulated += local_batch_size_train
WorkerFwd ==
    /\ worker_pc = "fwd"
    /\ inner_step < MaxInnerStep
    /\ \E ok \in BOOLEAN :
          IF ok
          THEN /\ samples_accumulated' = samples_accumulated + local_batch_size_train
               /\ batches_left' = batches_left - 1
               /\ worker_pc' = IF samples_accumulated' >= local_batch_size_train_effective
                               THEN "inner" ELSE "batch"
          ELSE /\ worker_pc' = "except"
               /\ UNCHANGED <<samples_accumulated, batches_left>>
    /\ UNCHANGED <<notMinerVars, epoch, inner_step, controlVars, loopVars, handlerVars, workers_queued,
                   block_list_len, starts_left, current_upload_future>>

\* An inner optimizer step that counts as an outer step as well.
WorkerInnerAdvancesEpoch ==
    /\ worker_pc = "inner"
    /\ inner_step' = inner_step + 1
    /\ epoch' = epoch + 1
    /\ samples_accumulated' = 0
    /\ worker_pc' = "batch"
    /\ UNCHANGED <<notMinerVars, controlVars, loopVars, handlerVars, workers_queued,
                   block_list_len, batches_left, starts_left, current_upload_future>>

\* Miner.inner_optimizer_step, called by the worker
WorkerInner ==
    /\ worker_pc = "inner"
    /\ inner_step' = inner_step + 1
    /\ samples_accumulated' = 0
    /\ worker_pc' = "batch"
    /\ UNCHANGED <<notMinerVars, epoch, controlVars, loopVars, handlerVars, workers_queued,
                   block_list_len, batches_left, starts_left, current_upload_future>>

\* except Exception as e: status = ERROR; training_error = str(e); break
WorkerExcept ==
    /\ worker_pc = "except"
    /\ training_status' = "ERROR"
    /\ training_error' = "error"
    /\ worker_pc' = "final"
    /\ UNCHANGED <<notMinerVars, progressVars, training_active, stop_event, loopVars, handlerVars,
                   workers_queued, block_list_len, batches_left, starts_left,
                   current_upload_future>>

\* WorkerFinal without the assignment after the loop.
WorkerFinalKeepsStatus ==
    /\ worker_pc = "final"
    /\ worker_pc' = "none"
    /\ UNCHANGED <<notMinerVars, progressVars, controlVars, loopVars,
                   handlerVars, workers_queued, block_list_len, batches_left, starts_left,
                   current_upload_future>>

\* self.training_status = TrainingStatus.STOPPED, after the loop
WorkerFinal ==
    /\ worker_pc = "final"
    /\ training_status' = "STOPPED"
    /\ worker_pc' = "none"
    /\ UNCHANGED <<notMinerVars, progressVars, training_active, training_error, stop_event, loopVars,
                   handlerVars, workers_queued, block_list_len, batches_left, starts_left,
                   current_upload_future>>

(***************************************************************************)
(* Miner.pause_training, Miner.resume_training, Miner.inner_optimizer_step *)
(* as the handler runs them, and Miner.all_reduce itself.  A request's     *)
(* coroutine keeps the event loop from its first statement to its return:  *)
(* no await of the handler suspends (the lock is free, the delegated call  *)
(* fails before it is awaited, time.sleep blocks the loop's thread).       *)
(***************************************************************************)
Falsy(c) == c \in {"None", "False"}

\* bt.logging.info("Received All Reduce Call"); all_reduce_start_time = ...
ArReceive(h) ==
    /\ ar_pc[h] = "idle"
    /\ \A g \in Requests : g < h => ar_pc[g] # "idle"   \* numbered as they arrive
    /\ loop_owner = 0
    /\ loop_owner' = h
    /\ ar_pc' = [ar_pc EXCEPT ![h] = "lock"]
    /\ epoch_at_entry' = [epoch_at_entry EXCEPT ![h] = epoch]
    /\ \E rw \in RoundConditions : round_would' = [round_would EXCEPT ![h] = rw]
    /\ UNCHANGED <<notMinerVars, progressVars, controlVars, training_lock, completion, ar_exc,
                   ar_result, ar_cause, all_reduce_success_status, workerVars,
                   current_upload_future>>

\* A lock that admits a second holder, entered through an await that gives the
\* event loop away.
ArLockShared(h) ==
    /\ ar_pc[h] = "lock"
    /\ loop_owner = h
    /\ training_lock' = h
    /\ loop_owner' = 0
    /\ ar_pc' = [ar_pc EXCEPT ![h] = "cancel"]
    /\ UNCHANGED <<notMinerVars, progressVars, controlVars, completion, ar_exc, ar_result,
                   ar_cause, epoch_at_entry, round_would,
                   all_reduce_success_status, workerVars, current_upload_future>>

\* async with self.training_lock:
ArLock(h) ==
    /\ ar_pc[h] = "lock"
    /\ loop_owner = h
    /\ training_lock = 0
    /\ training_lock' = h
    /\ ar_pc' = [ar_pc EXCEPT ![h] = "cancel"]
    /\ UNCHANGED <<notMinerVars, progressVars, controlVars, loop_owner, completion, ar_exc, ar_result,
                   ar_cause, epoch_at_entry, round_would,
                   all_reduce_success_status, workerVars, current_upload_future>>

\* if self.current_upload_future and not self.current_upload_future.done(): cancel()
ArCancelUpload(h) ==
    /\ ar_pc[h] = "cancel"
    /\ loop_owner = h
    /\ current_upload_future' =
          IF UploadInFlight(current_upload_future)
          THEN FutureCancel(current_upload_future)
          ELSE current_upload_future
    /\ ar_pc' = [ar_pc EXCEPT ![h] = "pause"]
    /\ UNCHANGED <<notMinerVars, progressVars, controlVars, loopVars, completion, ar_exc, ar_result,
                   ar_cause, epoch_at_entry, round_would,
                   all_reduce_success_status, workerVars>>

\* pause_training: self.training_active.clear(); time.sleep(1)
ArPauseClear(h) ==
    /\ ar_pc[h] = "pause"
    /\ loop_owner = h
    /\ training_active' = FALSE
    /\ ar_pc' = [ar_pc EXCEPT ![h] = "paused"]
    /\ UNCHANGED <<notMinerVars, progressVars, training_status, training_error, stop_event, loopVars,
                   completion, ar_exc, ar_result, ar_cause, epoch_at_entry, round_would, all_reduce_success_status, workerVars,
                   current_upload_future>>

\* pause_training: self.training_status = TrainingStatus.PAUSED
ArPauseStatus(h) ==
    /\ ar_pc[h] = "paused"
    /\ loop_owner = h
    /\ training_status' = "PAUSED"
    /\ ar_pc' = [ar_pc EXCEPT ![h] = "inner"]
    /\ UNCHANGED <<notMinerVars, progressVars, training_active, training_error, stop_event, loopVars,
                   completion, ar_exc, ar_result, ar_cause, epoch_at_entry, round_would, all_reduce_success_status, workerVars,
                   current_upload_future>>

\* self.inner_optimizer_step(): the counters move at its end; a failing optimizer
\* call leaves them and is caught by the outer except
ArInner(h) ==
    /\ ar_pc[h] = "inner"
    /\ loop_owner = h
    /\ \E ok \in BOOLEAN :
          IF ok
          THEN /\ inner_step' = inner_step + 1
               /\ samples_accumulated' = 0
               /\ ar_pc' = [ar_pc EXCEPT ![h] = "call"]
               /\ UNCHANGED <<ar_exc, ar_cause>>
          ELSE /\ ar_exc' = [ar_exc EXCEPT ![h] = "RuntimeError"]
               /\ ar_cause' = [ar_cause EXCEPT ![h] = "inner_step_raised"]
               /\ ar_pc' = [ar_pc EXCEPT ![h] = "outer_except"]
               /\ UNCHANGED <<inner_step, samples_accumulated>>
    /\ UNCHANGED <<notMinerVars, epoch, controlVars, loopVars, completion, ar_result, epoch_at_entry,
                   round_would, all_reduce_success_status, workerVars,
                   current_upload_future>>

\* synapse = await self.avg_handler.run_miner_allreduce(synapse, local_progress,
\* all_reduce_start_time); if not synapse.completion: raise AllReduceError(...)
ArCall(h) ==
    /\ ar_pc[h] = "call"
    /\ loop_owner = h
    /\ LET out == IF CallBinds
                  THEN RoundOutcome(round_would[h])
                  ELSE "TypeError"
           returned == IF out = "completed" THEN "True" ELSE completion[h]
       IN  IF out = "completed" /\ ~Falsy(returned)
           THEN /\ completion' = [completion EXCEPT ![h] = returned]
                /\ ar_pc' = [ar_pc EXCEPT ![h] = "unlock"]
                /\ UNCHANGED <<ar_exc, ar_cause>>
           ELSE /\ ar_exc' = [ar_exc EXCEPT ![h] =
                                 IF out = "completed" THEN "AllReduceError" ELSE out]
                /\ ar_cause' = [ar_cause EXCEPT ![h] =
                                 CASE out = "TypeError" -> "call_raised"
                                   [] out = "completed" -> "non_completion"
                                   [] OTHER -> "handler_raised"]
                /\ ar_pc' = [ar_pc EXCEPT ![h] = "inner_except"]
                /\ UNCHANGED completion
    /\ UNCHANGED <<notMinerVars, progressVars, controlVars, loopVars, ar_result, epoch_at_entry,
                   round_would, all_reduce_success_status, workerVars,
                   current_upload_future>>

\* except Exception as e: synapse.completion = False   (inside the lock)
ArInnerExcept(h) ==
    /\ ar_pc[h] = "inner_except"
    /\ loop_owner = h
    /\ completion' = [completion EXCEPT ![h] = "False"]
    /\ ar_exc' = [ar_exc EXCEPT ![h] = "none"]
    /\ ar_pc' = [ar_pc EXCEPT ![h] = "unlock"]
    /\ UNCHANGED <<notMinerVars, progressVars, controlVars, loopVars, ar_result, ar_cause,
                   epoch_at_entry, round_would, all_reduce_success_status,
                   workerVars, current_upload_future>>

\* leaving "async with self.training_lock" without an exception
ArUnlock(h) ==
    /\ ar_pc[h] = "unlock"
    /\ loop_owner = h
    /\ training_lock' = 0
    /\ ar_pc' = [ar_pc EXCEPT ![h] = "finally"]
    /\ UNCHANGED <<notMinerVars, progressVars, controlVars, loop_owner, completion, ar_exc, ar_result,
                   ar_cause, epoch_at_entry, round_would, all_reduce_success_status,
                   workerVars, current_upload_future>>

\* the exception leaves the lock; except Exception as e: synapse.completion = False;
\* raise AllReduceError(...) from e
ArOuterExcept(h) ==
    /\ ar_pc[h] = "outer_except"
    /\ loop_owner = h
    /\ training_lock' = 0
    /\ completion' = [completion EXCEPT ![h] = "False"]
    /\ ar_exc' = [ar_exc EXCEPT ![h] = "AllReduceError"]
    /\ ar_pc' = [ar_pc EXCEPT ![h] = "finally"]
    /\ UNCHANGED <<notMinerVars, progressVars, controlVars, loop_owner, ar_result, ar_cause,
                   epoch_at_entry, round_would, all_reduce_success_status,
                   workerVars, current_upload_future>>

\* ArFinally with resume_training() run on both branches of the finalization.
ArFinallyResumes(h) ==
    /\ ar_pc[h] = "finally"
    /\ loop_owner = h
    /\ IF completion[h] = "True"
       THEN /\ samples_accumulated' = 0
            /\ inner_step' = 0
            /\ epoch' = epoch + 1
            /\ current_upload_future' = start_background_upload(current_upload_future)
            /\ upload_args' = submitted(current_upload_future, upload_args, epoch + 1, 0)
            /\ UNCHANGED all_reduce_success_status
       ELSE /\ all_reduce_success_status' = "False"
            /\ UNCHANGED <<progressVars, current_upload_future, upload_args>>
    /\ training_active' = TRUE
    /\ training_status' = "RUNNING"
    /\ ar_exc' = [ar_exc EXCEPT ![h] = "none"]
    /\ ar_result' = [ar_result EXCEPT ![h] = "returned"]
    /\ ar_pc' = [ar_pc EXCEPT ![h] = "done"]
    /\ loop_owner' = 0
    /\ UNCHANGED <<avgVars, scoreVars, extraVars, uploadRun, training_error, stop_event, training_lock,
                   completion, ar_cause, epoch_at_entry, round_would, workerVars>>

\* ArFinally with "return synapse" placed after the finally block instead of in it:
\* an exception in flight then reaches the caller.
ArFinallyPropagates(h) ==
    /\ ar_pc[h] = "finally"
    /\ loop_owner = h
    /\ IF completion[h] = "True"
       THEN /\ samples_accumulated' = 0
            /\ inner_step' = 0
            /\ epoch' = epoch + 1
            /\ current_upload_future' = start_background_upload(current_upload_future)
            /\ upload_args' = submitted(current_upload_future, upload_args, epoch + 1, 0)
            /\ training_active' = TRUE
            /\ training_status' = "RUNNING"
            /\ UNCHANGED all_reduce_success_status
       ELSE /\ all_reduce_success_status' = "False"
            /\ UNCHANGED <<progressVars, training_active, training_status,
                           current_upload_future, upload_args>>
    /\ ar_result' = [ar_result EXCEPT ![h] =
                        IF ar_exc[h] = "none" THEN "returned" ELSE "raised"]
    /\ ar_pc' = [ar_pc EXCEPT ![h] = "done"]
    /\ loop_owner' = 0
    /\ UNCHANGED <<avgVars, scoreVars, extraVars, uploadRun, training_error, stop_event, training_lock,
                   completion, ar_exc, ar_cause, epoch_at_entry, round_would, workerVars>>

\* finally: if synapse.completion is True: reset counters, epoch += 1, start the
\* upload, resume_training(); else: all_reduce_success_status = False.
\* return synapse: a return inside finally discards the exception in flight.
ArFinally(h) ==
    /\ ar_pc[h] = "finally"
    /\ loop_owner = h
    /\ IF completion[h] = "True"
       THEN /\ samples_accumulated' = 0
            /\ inner_step' = 0
            /\ epoch' = epoch + 1
            /\ current_upload_future' = start_background_upload(current_upload_future)
            /\ upload_args' = submitted(current_upload_future, upload_args, epoch + 1, 0)
            /\ training_active' = TRUE
            /\ training_status' = "RUNNING"
            /\ UNCHANGED all_reduce_success_status
       ELSE /\ all_reduce_success_status' = "False"
            /\ UNCHANGED <<progressVars, training_active, training_status,
                           current_upload_future, upload_args>>
    /\ ar_exc' = [ar_exc EXCEPT ![h] = "none"]
    /\ ar_result' = [ar_result EXCEPT ![h] = "returned"]
    /\ ar_pc' = [ar_pc EXCEPT ![h] = "done"]
    /\ loop_owner' = 0
    /\ UNCHANGED <<avgVars, scoreVars, extraVars, uploadRun, training_error, stop_event, training_lock,
                   completion, ar_cause, epoch_at_entry, round_would, workerVars>>

all_reduce(h) ==
    \/ ArReceive(h) \/ ArLock(h) \/ ArCancelUpload(h) \/ ArPauseClear(h)
    \/ ArPauseStatus(h) \/ ArInner(h) \/ ArCall(h) \/ ArInnerExcept(h)
    \/ ArUnlock(h) \/ ArOuterExcept(h) \/ ArFinally(h)

_training_worker ==
    \/ WorkerBegin \/ WorkerLoop \/ WorkerWait1 \/ WorkerPeriodic \/ WorkerFetch
    \/ WorkerWait2 \/ WorkerAppend \/ WorkerBatch \/ WorkerFwd \/ WorkerInner
    \/ WorkerExcept \/ WorkerFinal

(***************************************************************************)
(* The miner after construction (_init_progress_tracking,                  *)
(* _init_training_components, _load_model).                                *)
(***************************************************************************)
MinerInit ==
    /\ epoch \in 0..MaxInitEpoch
    /\ inner_step = 0
    /\ samples_accumulated = 0
    /\ training_active = TRUE
    /\ training_status = "STOPPED"
    /\ training_error = "None"
    /\ stop_event = FALSE
    /\ training_lock = 0
    /\ loop_owner = 0
    /\ current_upload_future = "None"
    /\ all_reduce_success_status = "unset"
    /\ ar_pc = [h \in Requests |-> "idle"]
    /\ completion = [h \in Requests |-> "None"]
    /\ ar_exc = [h \in Requests |-> "none"]
    /\ ar_result = [h \in Requests |-> "none"]
    /\ ar_cause = [h \in Requests |-> "none"]
    /\ epoch_at_entry = [h \in Requests |-> 0]
    /\ round_would = [h \in Requests |-> "ok"]
    /\ worker_pc = "none"
    /\ workers_queued = 0
    /\ block_list_len = 0
    /\ batches_left = 0
    /\ starts_left = MaxStarts

MinerNext ==
    \/ \E h \in Requests : all_reduce(h)
    \/ _training_worker
    \/ start_continuous_training
    \/ SetStopEvent
    \/ UploadBegin
    \/ UploadEnd

(***************************************************************************)
(* The training executor under repeated calls of start_continuous_training *)
(* (they come from outside src), with one AllReduce request and the stop   *)
(* flag.                                                                   *)
(***************************************************************************)
MaxExecStarts == 2      \* calls of start_continuous_training

ExecInit ==
    /\ epoch = 0
    /\ inner_step = 0
    /\ samples_accumulated = 0
    /\ training_active = TRUE
    /\ training_status = "STOPPED"
    /\ training_error = "None"
    /\ stop_event = FALSE
    /\ training_lock = 0
    /\ loop_owner = 0
    /\ current_upload_future = "None"
    /\ all_reduce_success_status = "unset"
    /\ ar_pc = [h \in Requests |-> "idle"]
    /\ completion = [h \in Requests |-> "None"]
    /\ ar_exc = [h \in Requests |-> "none"]
    /\ ar_result = [h \in Requests |-> "none"]
    /\ ar_cause = [h \in Requests |-> "none"]
    /\ epoch_at_entry = [h \in Requests |-> 0]
    /\ round_would = [h \in Requests |-> "ok"]
    /\ worker_pc = "none"
    /\ workers_queued = 0
    /\ block_list_len = 0
    /\ batches_left = 0
    /\ starts_left = MaxExecStarts

ExecNext ==
    \/ all_reduce(1)
    \/ _training_worker
    \/ start_continuous_training
    \/ SetStopEvent

(***************************************************************************)
(* averaging/avg_handler.py: AveragingHandler.                             *)
(*                                                                         *)
(* One handler runs the rounds of its role.  Miner-side rounds are         *)
(* coroutines of one event loop: a round keeps the loop until it awaits    *)
(* asyncio.sleep in _wait_for_model_loading or ends.  Validator-side       *)
(* rounds are started one after the other.  A model load runs on a thread  *)
(* of its own and takes model_loading_manager's flag for its duration.     *)
(***************************************************************************)
NumRounds == 2          \* rounds a handler is asked to run
NumLoaders == 1         \* model loads that happen
SampleLen == 2          \* values in a weight sample (the code takes the last 10)

Rounds == 1..NumRounds
Loaders == 1..NumLoaders
Values == {"0.0", "1.0", "nan"}
Samples == [1..SampleLen -> Values]

\* The averaging result a validator unpacks:
\* failed_peers, participating_peers, modes, bandwidths
AvgResults == {<<"failed_a", "peers_a", "modes_a", "bandwidths_a">>,
               <<"failed_b", "peers_b", "modes_b", "bandwidths_b">>}

NoExc == [type |-> "none", cause |-> "none"]
Exc(t, c) == [type |-> t, cause |-> c]

\* The exception classes the module defines; all derive from AllReduceError.
DefinedErrors ==
    {"AllReduceError", "GradientAveragingTimeoutError", "GradientAveragingError",
     "StateAveragingError"}

\* raise Name(...): a name the module neither defines nor imports raises NameError.
Raised(name) == IF name \in DefinedErrors THEN name ELSE "NameError"

\* Equality of two lists of floats made by tolist(): distinct float objects, so a
\* not-a-number element equals nothing, itself included.
FloatEq(x, y) == x = y /\ x # "nan"

ListEq(a, b) == \A i \in 1..SampleLen : FloatEq(a[i], b[i])

\* sum(np.isnan(final_weights))
NanCount(a) == Cardinality({i \in 1..SampleLen : a[i] = "nan"})

\* The outcome of the call: "True", or the type of the exception it raises.
_validate_weight_update(initial_weights, final_weights) ==
    IF ListEq(final_weights, initial_weights)
    THEN Raised("ModelStateError")
    ELSE IF NanCount(final_weights) > 1
         THEN Raised("ModelStateError")
         ELSE "True"

\* The sample of the state a load installs.
LoadedSample == [i \in 1..SampleLen |-> "1.0"]

EmptyDict == [k \in {} |-> "none"]

ResultDict(t) ==
    [failed_peers |-> t[1], participating_peers |-> t[2], modes |-> t[3],
     bandwidths |-> t[4]]

NoReturn == [success |-> "None", results |-> EmptyDict]

FreshRound ==
    [pc |-> "idle", grad_averager_step |-> "None", cancel_called |-> FALSE,
     initial_weights |-> <<>>, outer_applied |-> FALSE, validation |-> "none",
     averaging_result |-> <<>>, exc |-> NoExc, fail |-> "none", result |-> "none",
     completion |-> "None", ret |-> NoReturn]

Arrived(r) == \A q \in Rounds : q < r => rounds[q].pc # "idle"

\* A round that has ended hands its outcome to its caller before anything else runs.
NoneExited == \A q \in Rounds : rounds[q].pc # "exited"

\* ---- run_miner_allreduce ----

RoundEnter(r) ==
    /\ role = "miner"
    /\ NoneExited
    /\ rounds[r].pc = "idle"
    /\ Arrived(r)
    /\ avg_loop_owner = 0
    /\ avg_loop_owner' = r
    /\ rounds' = [rounds EXCEPT ![r].pc = "wait"]
    /\ UNCHANGED <<notAvgVars, role, has_manager, is_loading, weights, ld_pc>>

\* _wait_for_model_loading: while is_loading: await asyncio.sleep(1)
RoundWaitLoading(r) ==
    /\ rounds[r].pc = "wait"
    /\ avg_loop_owner = r
    /\ IF has_manager /\ is_loading
       THEN /\ rounds' = [rounds EXCEPT ![r].pc = "sleeping"]
            /\ avg_loop_owner' = 0
       ELSE /\ rounds' = [rounds EXCEPT ![r].pc = "set"]
            /\ UNCHANGED avg_loop_owner
    /\ UNCHANGED <<notAvgVars, role, has_manager, is_loading, weights, ld_pc>>

RoundWake(r) ==
    /\ rounds[r].pc = "sleeping"
    /\ NoneExited
    /\ avg_loop_owner = 0
    /\ avg_loop_owner' = r
    /\ rounds' = [rounds EXCEPT ![r].pc = "wait"]
    /\ UNCHANGED <<notAvgVars, role, has_manager, is_loading, weights, ld_pc>>

\* if self.model_loading_manager: set_loading_state(True); grad_averager_step = None
RoundSetLoading(r) ==
    /\ rounds[r].pc = "set"
    /\ avg_loop_owner = r
    /\ is_loading' = IF has_manager THEN TRUE ELSE is_loading
    /\ rounds' = [rounds EXCEPT ![r].pc = "clip"]
    /\ UNCHANGED <<notAvgVars, role, has_manager, weights, avg_loop_owner, ld_pc>>

\* torch.nn.utils.clip_grad_norm_(self.model.parameters(), 1.0), in both roles
RoundClip(r) ==
    /\ rounds[r].pc = "clip"
    /\ \E ok \in BOOLEAN :
          rounds' = [rounds EXCEPT ![r] =
              IF ok
              THEN [@ EXCEPT !.pc = IF role = "miner" THEN "step" ELSE "start"]
              ELSE [@ EXCEPT !.pc = "except", !.exc = Exc("RuntimeError", "none"),
                             !.fail = "clip"]]
    /\ UNCHANGED <<notAvgVars, role, has_manager, is_loading, weights,
                   avg_loop_owner, ld_pc>>

\* grad_averager_step = self.grad_averager.step(wait=True, timeout=...), with
\* except asyncio.TimeoutError / except Exception around it.  The value returned is
\* the one the finalization calls cancel() on; the step it stands for has finished.
RoundStep(r) ==
    /\ rounds[r].pc = "step"
    /\ \E outcome \in {"ok", "timeout", "error"} :
          rounds' = [rounds EXCEPT ![r] =
              CASE outcome = "ok" ->
                     [@ EXCEPT !.pc = "sample", !.grad_averager_step = "done"]
                [] outcome = "timeout" ->
                     [@ EXCEPT !.pc = "except", !.fail = "timeout",
                               !.exc = Exc(Raised("GradientAveragingTimeoutError"), "none")]
                [] outcome = "error" ->
                     [@ EXCEPT !.pc = "except", !.fail = "averaging",
                               !.exc = Exc(Raised("GradientAveragingError"), "none")]]
    /\ UNCHANGED <<notAvgVars, role, has_manager, is_loading, weights,
                   avg_loop_owner, ld_pc>>

\* notify_used_averaged_gradients(); initial_weights = self._get_weights_sample()
RoundSample(r) ==
    /\ rounds[r].pc = "sample"
    /\ rounds' = [rounds EXCEPT ![r].pc = "outer", ![r].initial_weights = weights]
    /\ UNCHANGED <<notAvgVars, role, has_manager, is_loading, weights,
                   avg_loop_owner, ld_pc>>

\* state_averager.step(increment_epoch=True, optimizer_step=True, zero_grad=False);
\* update_main_param_after_outer_step(); optimizer.zero_grad().  The step gives the
\* sampled weights any values; a failure comes before the step or after it.
RoundOuter(r) ==
    /\ rounds[r].pc = "outer"
    /\ \E ok \in BOOLEAN, applied \in BOOLEAN :
          /\ ok => applied
          /\ IF applied
             THEN weights' \in Samples
             ELSE UNCHANGED weights
          /\ rounds' = [rounds EXCEPT ![r] =
                IF ok
                THEN [@ EXCEPT !.pc = "validate", !.outer_applied = applied]
                ELSE [@ EXCEPT !.pc = "except", !.exc = Exc("RuntimeError", "none"),
                               !.fail = "outer", !.outer_applied = applied]]
    /\ UNCHANGED <<notAvgVars, role, has_manager, is_loading, avg_loop_owner, ld_pc>>

\* await self._validate_weight_update(initial_weights), then the return statement:
\* synapse.completion = "True"; return synapse            (miner)
\* return True, {failed_peers, participating_peers, ...}   (validator)
RoundValidate(r) ==
    /\ rounds[r].pc = "validate"
    /\ LET v == _validate_weight_update(rounds[r].initial_weights, weights)
           seen == [rounds[r] EXCEPT !.validation = v, !.initial_weights = <<>>]
       IN  rounds' = [rounds EXCEPT ![r] =
              IF v # "True"
              THEN [seen EXCEPT !.pc = "except", !.exc = Exc(v, "none"),
                                !.fail = "validation"]
              ELSE IF role = "miner"
                   THEN [seen EXCEPT !.pc = "finally", !.completion = "True"]
                   ELSE [seen EXCEPT !.pc = "finally",
                                     !.ret = [success |-> "True",
                                              results |-> ResultDict(seen.averaging_result)]]]
    /\ UNCHANGED <<notAvgVars, role, has_manager, is_loading, weights,
                   avg_loop_owner, ld_pc>>

\* MinerExcept without "from e": the wrapped cause is lost.
MinerExceptNoCause(r) ==
    /\ role = "miner"
    /\ rounds[r].pc = "except"
    /\ rounds' = [rounds EXCEPT ![r].pc = "finally",
                                ![r].exc = Exc(Raised("AllReduceError"), "none")]
    /\ UNCHANGED <<notAvgVars, role, has_manager, is_loading, weights,
                   avg_loop_owner, ld_pc>>

\* except Exception as e: raise AllReduceError(f"Unexpected error ...") from e
MinerExcept(r) ==
    /\ role = "miner"
    /\ rounds[r].pc = "except"
    /\ rounds' = [rounds EXCEPT ![r].pc = "finally",
                                ![r].exc = Exc(Raised("AllReduceError"), @.type)]
    /\ UNCHANGED <<notAvgVars, role, has_manager, is_loading, weights,
                   avg_loop_owner, ld_pc>>

\* MinerFinally without set_loading_state(False).
MinerFinallyKeepsFlag(r) ==
    /\ role = "miner"
    /\ rounds[r].pc = "finally"
    /\ rounds' = [rounds EXCEPT ![r] =
          [@ EXCEPT !.pc = "exited",
                    !.grad_averager_step = IF @ # "None" THEN FutureCancel(@) ELSE @,
                    !.cancel_called = rounds[r].grad_averager_step # "None",
                    !.result = IF rounds[r].exc = NoExc THEN "returned" ELSE "raised"]]
    /\ avg_loop_owner' = 0
    /\ UNCHANGED <<notAvgVars, role, has_manager, is_loading, weights, ld_pc>>

\* finally: if grad_averager_step: grad_averager_step.cancel()
\*          if self.model_loading_manager: set_loading_state(False)
MinerFinally(r) ==
    /\ role = "miner"
    /\ rounds[r].pc = "finally"
    /\ rounds' = [rounds EXCEPT ![r] =
          [@ EXCEPT !.pc = "exited",
                    !.grad_averager_step = IF @ # "None" THEN FutureCancel(@) ELSE @,
                    !.cancel_called = rounds[r].grad_averager_step # "None",
                    !.result = IF rounds[r].exc = NoExc THEN "returned" ELSE "raised"]]
    /\ is_loading' = IF has_manager THEN FALSE ELSE is_loading
    /\ avg_loop_owner' = 0
    /\ UNCHANGED <<notAvgVars, role, has_manager, weights, ld_pc>>

\* ---- run_validator_allreduce ----

VEnter(r) ==
    /\ role = "validator"
    /\ NoneExited
    /\ rounds[r].pc = "idle"
    /\ Arrived(r)
    /\ \A q \in Rounds : rounds[q].pc \in {"idle", "done"}
    /\ rounds' = [rounds EXCEPT ![r].pc = "clip"]
    /\ UNCHANGED <<notAvgVars, role, has_manager, is_loading, weights,
                   avg_loop_owner, ld_pc>>

\* grad_averager_step = self.grad_averager.step(wait=False, timeout=timeout)
VStart(r) ==
    /\ rounds[r].pc = "start"
    /\ \E ok \in BOOLEAN :
          rounds' = [rounds EXCEPT ![r] =
              IF ok
              THEN [@ EXCEPT !.pc = "send", !.grad_averager_step = "pending"]
              ELSE [@ EXCEPT !.pc = "except", !.exc = Exc("RuntimeError", "none"),
                             !.fail = "start"]]
    /\ UNCHANGED <<notAvgVars, role, has_manager, is_loading, weights,
                   avg_loop_owner, ld_pc>>

\* query_tasks.append(dendrite_pool.async_forward(...)); await asyncio.gather(*query_tasks)
VSend(r) ==
    /\ rounds[r].pc = "send"
    /\ \E ok \in BOOLEAN :
          rounds' = [rounds EXCEPT ![r] =
              IF ok
              THEN [@ EXCEPT !.pc = "await"]
              ELSE [@ EXCEPT !.pc = "except", !.exc = Exc("RuntimeError", "none"),
                             !.fail = "query"]]
    /\ UNCHANGED <<notAvgVars, role, has_manager, is_loading, weights,
                   avg_loop_owner, ld_pc>>

\* VAwait that goes on to the outer step when the averaging result is None.
VAwaitIgnoresAbsent(r) ==
    /\ rounds[r].pc = "await"
    /\ \/ rounds' = [rounds EXCEPT ![r] =
              [@ EXCEPT !.pc = "sample", !.grad_averager_step = "done"]]
       \/ \E t \in AvgResults :
             rounds' = [rounds EXCEPT ![r] =
                 [@ EXCEPT !.pc = "sample", !.grad_averager_step = "done",
                           !.averaging_result = t]]
    /\ UNCHANGED <<notAvgVars, role, has_manager, is_loading, weights,
                   avg_loop_owner, ld_pc>>

\* averaging_result = await grad_averager_step
\* if averaging_result is None: return False, {}
\* failed_peers, participating_peers, modes, bandwidths = averaging_result
VAwait(r) ==
    /\ rounds[r].pc = "await"
    /\ \/ rounds' = [rounds EXCEPT ![r] =
              [@ EXCEPT !.pc = "finally", !.grad_averager_step = "done",
                        !.fail = "absent",
                        !.ret = [success |-> "False", results |-> EmptyDict]]]
       \/ \E t \in AvgResults :
             rounds' = [rounds EXCEPT ![r] =
                 [@ EXCEPT !.pc = "sample", !.grad_averager_step = "done",
                           !.averaging_result = t]]
       \/ rounds' = [rounds EXCEPT ![r] =
              [@ EXCEPT !.pc = "except", !.grad_averager_step = "done",
                        !.exc = Exc("TimeoutError", "none"), !.fail = "await"]]
    /\ UNCHANGED <<notAvgVars, role, has_manager, is_loading, weights,
                   avg_loop_owner, ld_pc>>

\* ValidatorExcept that logs and re-raises instead of returning.
ValidatorExceptReraises(r) ==
    /\ role = "validator"
    /\ rounds[r].pc = "except"
    /\ rounds' = [rounds EXCEPT ![r].pc = "finally"]
    /\ UNCHANGED <<notAvgVars, role, has_manager, is_loading, weights,
                   avg_loop_owner, ld_pc>>

\* except Exception as e: bt.logging.error(...); return False, {}
ValidatorExcept(r) ==
    /\ role = "validator"
    /\ rounds[r].pc = "except"
    /\ rounds' = [rounds EXCEPT ![r].pc = "finally", ![r].exc = NoExc,
                                ![r].ret = [success |-> "False", results |-> EmptyDict]]
    /\ UNCHANGED <<notAvgVars, role, has_manager, is_loading, weights,
                   avg_loop_owner, ld_pc>>

\* ValidatorFinally without the cancel() call.
ValidatorFinallyNoCancel(r) ==
    /\ role = "validator"
    /\ rounds[r].pc = "finally"
    /\ rounds' = [rounds EXCEPT ![r] =
          [@ EXCEPT !.pc = "exited",
                    !.result = IF rounds[r].exc = NoExc THEN "returned" ELSE "raised"]]
    /\ UNCHANGED <<notAvgVars, role, has_manager, is_loading, weights,
                   avg_loop_owner, ld_pc>>

\* finally: if grad_averager_step: grad_averager_step.cancel()
ValidatorFinally(r) ==
    /\ role = "validator"
    /\ rounds[r].pc = "finally"
    /\ rounds' = [rounds EXCEPT ![r] =
          [@ EXCEPT !.pc = "exited",
                    !.grad_averager_step = IF @ # "None" THEN FutureCancel(@) ELSE @,
                    !.cancel_called = rounds[r].grad_averager_step # "None",
                    !.result = IF rounds[r].exc = NoExc THEN "returned" ELSE "raised"]]
    /\ UNCHANGED <<notAvgVars, role, has_manager, is_loading, weights,
                   avg_loop_owner, ld_pc>>

\* The caller has taken what the round returned or raised; its locals are gone.
RoundForget(r) ==
    /\ rounds[r].pc = "exited"
    /\ rounds' = [rounds EXCEPT ![r] = [FreshRound EXCEPT !.pc = "done"]]
    /\ UNCHANGED <<notAvgVars, role, has_manager, is_loading, weights,
                   avg_loop_owner, ld_pc>>

\* ---- a model load (load_state_from_peer and the like), on its own thread ----

\* The load waits for the flag to be clear and takes it, in one step.
LoaderAcquire(l) ==
    /\ role = "miner"
    /\ NoneExited
    /\ has_manager
    /\ ld_pc[l] = "idle"
    /\ \A k \in Loaders : k < l => ld_pc[k] # "idle"
    /\ ~is_loading
    /\ is_loading' = TRUE
    /\ ld_pc' = [ld_pc EXCEPT ![l] = "loading"]
    /\ UNCHANGED <<notAvgVars, role, has_manager, weights, avg_loop_owner,
                   rounds>>

\* The loaded state replaces the model's parameters.
LoaderLoad(l) ==
    /\ ld_pc[l] = "loading"
    /\ NoneExited
    /\ weights' = LoadedSample
    /\ ld_pc' = [ld_pc EXCEPT ![l] = "clear"]
    /\ UNCHANGED <<notAvgVars, role, has_manager, is_loading, avg_loop_owner,
                   rounds>>

LoaderClear(l) ==
    /\ ld_pc[l] = "clear"
    /\ NoneExited
    /\ is_loading' = FALSE
    /\ ld_pc' = [ld_pc EXCEPT ![l] = "done"]
    /\ UNCHANGED <<notAvgVars, role, has_manager, weights, avg_loop_owner,
                   rounds>>

run_miner_allreduce(r) ==
    \/ RoundEnter(r) \/ RoundWaitLoading(r) \/ RoundWake(r) \/ RoundSetLoading(r)
    \/ RoundStep(r) \/ MinerExcept(r) \/ MinerFinally(r)

run_validator_allreduce(r) ==
    \/ VEnter(r) \/ VStart(r) \/ VSend(r) \/ VAwait(r) \/ ValidatorExcept(r)
    \/ ValidatorFinally(r)

OuterStepAndValidation(r) ==
    \/ RoundClip(r) \/ RoundSample(r) \/ RoundOuter(r) \/ RoundValidate(r)
    \/ RoundForget(r)

ModelLoad(l) == LoaderAcquire(l) \/ LoaderLoad(l) \/ LoaderClear(l)

\* A handler that runs nothing: the state of this group under the other specifications.
AvgIdle ==
    /\ role = "miner"
    /\ has_manager = FALSE
    /\ is_loading = FALSE
    /\ weights = [i \in 1..SampleLen |-> "0.0"]
    /\ avg_loop_owner = 0
    /\ rounds = [r \in Rounds |-> FreshRound]
    /\ ld_pc = [l \in Loaders |-> "idle"]

\* AveragingHandler.__init__, for either role, with or without a loading manager.
AvgInit ==
    /\ role \in {"miner", "validator"}
    /\ has_manager \in (IF role = "miner" THEN BOOLEAN ELSE {FALSE})
    /\ is_loading = FALSE
    /\ weights = [i \in 1..SampleLen |-> "0.0"]
    /\ avg_loop_owner = 0
    /\ rounds = [r \in Rounds |-> FreshRound]
    /\ ld_pc = [l \in Loaders |-> "idle"]

AvgNext ==
    \/ \E r \in Rounds : run_miner_allreduce(r)
    \/ \E r \in Rounds : run_validator_allreduce(r)
    \/ \E r \in Rounds : OuterStepAndValidation(r)
    \/ \E l \in Loaders : ModelLoad(l)

(***************************************************************************)
(* AveragingHandler.calculate_allreduce_scores.                            *)
(*                                                                         *)
(* One call on inputs as an AllReduce round outcome gives them: the        *)
(* participating peers, the failed peers, the peer-id to UID mapping and   *)
(* the optional lists of modes and bandwidths, parallel to the             *)
(* participating peers.  Scores are exact fractions <<numerator,           *)
(* denominator>> in lowest terms.                                          *)
(***************************************************************************)
NumPeers == 2           \* peers that can take part in a round
MaxFailed == 1          \* length of the failed-peer list

NumUids == 256          \* for uid in range(256)
DefaultUid == -1        \* peerids_to_uids.get(..., "'''"): a value that is no UID

UIDs == 0..(NumUids - 1)
Peers == 1..NumPeers
UidChoices == {0, NumUids - 1}
ModeValues == {"AveragingMode.CLIENT", "AveragingMode.NODE"}
BandwidthValues == {0, 1, 2}

\* An optional argument: None, or the list given.
None == <<>>
Some(x) == <<x>>

\* str(peer)
PeerStr(p) == <<"peer", p>>

\* str(uid): the decimal digits of uid
RECURSIVE StrUid(_)
StrUid(uid) == IF uid < 10 THEN <<uid>> ELSE Append(StrUid(uid \div 10), uid % 10)

\* int(str_uid)
IntOf(str_uid) ==
    LET n == Len(str_uid)
    IN  IF n = 1 THEN str_uid[1]
        ELSE IF n = 2 THEN 10 * str_uid[1] + str_uid[2]
        ELSE 100 * str_uid[1] + 10 * str_uid[2] + str_uid[3]

RECURSIVE GCD(_, _)
GCD(a, b) == IF b = 0 THEN a ELSE GCD(b, a % b)

Frac(n, d) == <<n \div GCD(n, d), d \div GCD(n, d)>>

Zero == Frac(0, 1)
One == Frac(1, 1)

Elements(list) == {list[i] : i \in 1..Len(list)}

\* a dict filled by "for idx ...: d[keys[idx]] = values[idx]": the last index wins
DictOf(keys, values) ==
    [k \in {keys[i] : i \in 1..Len(keys)} |->
        values[CHOOSE i \in 1..Len(keys) :
                  /\ keys[i] = k
                  /\ \A j \in 1..Len(keys) : (keys[j] = k) => (j <= i)]]

\* dict.get(key, default)
Get(d, key, default) == IF key \in DOMAIN d THEN d[key] ELSE default

participating_uids ==
    [idx \in 1..Len(participating_peers) |->
        Get(peerids_to_uids, PeerStr(participating_peers[idx]), DefaultUid)]

failed_uids ==
    [idx \in 1..Len(failed_peers) |->
        Get(peerids_to_uids, PeerStr(failed_peers[idx]), DefaultUid)]

uid_modes == IF modes = None THEN EmptyDict ELSE DictOf(participating_uids, modes[1])

uid_bandwidths ==
    IF bandwidths = None THEN EmptyDict ELSE DictOf(participating_uids, bandwidths[1])

Max(list) == CHOOSE x \in {list[i] : i \in 1..Len(list)} : \A i \in 1..Len(list) : list[i] <= x

\* max(bandwidths) if bandwidths else 1.0
max_bandwidth ==
    IF bandwidths # None /\ Len(bandwidths[1]) > 0 THEN Max(bandwidths[1]) ELSE 1

\* The loop body below takes what is built before the loop as p_uids and f_uids (the
\* elements of the two UID lists, which the body only tests membership in), u_modes,
\* u_bws and max_bw.
Participated(uid, p_uids, f_uids) == uid \in p_uids /\ uid \notin f_uids

\* A loop body without the mode penalty.
WrongModeIgnored(uid, u_modes) == FALSE

WrongMode(uid, u_modes) ==
    /\ modes # None
    /\ uid \in DOMAIN u_modes
    /\ u_modes[uid] = "AveragingMode.CLIENT"

\* the branch that computes 0.5 * (uid_bandwidths[uid] / max_bandwidth)
GetsBonus(uid, p_uids, f_uids, u_modes, u_bws) ==
    /\ Participated(uid, p_uids, f_uids)
    /\ bandwidths # None
    /\ uid \in DOMAIN u_bws
    /\ ~WrongMode(uid, u_modes)

\* A loop body that looks at the participating list alone first.
statusParticipantFirst(uid, p_uids, f_uids, u_modes) ==
    IF uid \in p_uids
    THEN IF WrongMode(uid, u_modes) THEN "WRONG_MODE" ELSE "SUCCESS"
    ELSE IF uid \in f_uids THEN "FAIL" ELSE "NON_PARTICIPATING"

status(uid, p_uids, f_uids, u_modes) ==
    IF Participated(uid, p_uids, f_uids)
    THEN IF WrongMode(uid, u_modes) THEN "WRONG_MODE" ELSE "SUCCESS"
    ELSE IF uid \in f_uids THEN "FAIL" ELSE "NON_PARTICIPATING"

\* 1.0 + 0.5 * (b / max_bandwidth) = (2 * max_bandwidth + b) / (2 * max_bandwidth)
final_score(uid, p_uids, f_uids, u_modes, u_bws, max_bw) ==
    IF Participated(uid, p_uids, f_uids)
    THEN IF WrongMode(uid, u_modes)
         THEN Zero
         ELSE IF GetsBonus(uid, p_uids, f_uids, u_modes, u_bws)
              THEN Frac(2 * max_bw + u_bws[uid], 2 * max_bw)
              ELSE One
    ELSE Zero

StrUids == {StrUid(uid) : uid \in UIDs}

\* str_uid = str(uid) in the loop: the uid of each key
UidOf == [str_uid \in StrUids |-> IntOf(str_uid)]

\* The call.  self.event is read before the loop; the division raises at the first
\* UID that gets a bonus when the largest bandwidth is 0.
calculate_allreduce_scores ==
    /\ sc_pc = "ready"
    /\ IF ~has_event
       THEN /\ sc_pc' = "raised"
            /\ sc_exc' = "AttributeError"
            /\ UNCHANGED <<event, scores, all_reduce_scores>>
       ELSE \E p_uids \in {Elements(participating_uids)},
               f_uids \in {Elements(failed_uids)},
               u_modes \in {uid_modes}, u_bws \in {uid_bandwidths},
               max_bw \in {max_bandwidth} :
                /\ event' = [failed_peers_count |-> Len(failed_peers),
                             participating_peers_count |-> Len(participating_peers),
                             successful_peers_count |->
                                 Len(participating_peers) - Len(failed_peers)]
                /\ IF /\ max_bw = 0
                      /\ \E uid \in UIDs : GetsBonus(uid, p_uids, f_uids, u_modes, u_bws)
                   THEN /\ sc_pc' = "raised"
                        /\ sc_exc' = "ZeroDivisionError"
                        /\ UNCHANGED <<scores, all_reduce_scores>>
                   ELSE /\ sc_pc' = "returned"
                        /\ sc_exc' = "none"
                        /\ scores' =
                               [str_uid \in StrUids |->
                                   final_score(UidOf[str_uid], p_uids, f_uids, u_modes,
                                               u_bws, max_bw)]
                        /\ all_reduce_scores' =
                               [str_uid \in StrUids |->
                                   status(UidOf[str_uid], p_uids, f_uids, u_modes)]
    /\ UNCHANGED <<notScoreVars, has_event, participating_peers, failed_peers,
                   peerids_to_uids, modes, bandwidths>>

IncreasingLists ==
    {list \in UNION {[1..k -> Peers] : k \in 0..MaxFailed} :
        \A i, j \in DOMAIN list : (i < j) => (list[i] < list[j])}

\* A handler no call is made on: the state of this group under the other
\* specifications.
ScoreIdle ==
    /\ sc_pc = "idle"
    /\ has_event = FALSE
    /\ event = EmptyDict
    /\ participating_peers = <<>>
    /\ failed_peers = <<>>
    /\ peerids_to_uids = EmptyDict
    /\ modes = None
    /\ bandwidths = None
    /\ scores = EmptyDict
    /\ all_reduce_scores = EmptyDict
    /\ sc_exc = "none"

\* The arguments of the call.  __init__ creates neither self.event nor
\* self.all_reduce_scores; an owner of the handler may have attached an event dict.
ScoreInit ==
    /\ sc_pc = "ready"
    /\ has_event \in BOOLEAN
    /\ event = EmptyDict
    /\ \E n \in 0..NumPeers : participating_peers = [i \in 1..n |-> i]
    /\ failed_peers \in IncreasingLists
    /\ peerids_to_uids \in
           UNION {[keys -> UidChoices] : keys \in SUBSET {PeerStr(p) : p \in Peers}}
    /\ modes \in {None} \cup
           {Some(list) : list \in [1..Len(participating_peers) -> ModeValues]}
    /\ bandwidths \in {None} \cup
           {Some(list) : list \in [1..Len(participating_peers) -> BandwidthValues]}
    /\ scores = EmptyDict
    /\ all_reduce_scores = EmptyDict
    /\ sc_exc = "none"

ScoreNext == calculate_allreduce_scores

(***************************************************************************)
(* neurons/miner.py: Miner.upload_model, run by the single thread of       *)
(* upload_executor.  A tag name is the sequence of its characters.  Every  *)
(* call of the hosting service inside the retry loop may raise.            *)
(***************************************************************************)
MaxTagEpoch == 1        \* epochs of the tags and of the calls drawn
MaxTags == 2            \* tags the repository holds when a drawn call begins

model_upload_retry_limit == 3
model_upload_retry_delay == 6

__run__ == <<"r">>      \* the run id: a string without a dot

Digits == <<"0", "1", "2", "3", "4", "5", "6", "7", "8", "9">>

\* f"{n}" of a non-negative integer
RECURSIVE Format(_)
Format(n) ==
    IF n < 10 THEN <<Digits[n + 1]>> ELSE Append(Format(n \div 10), Digits[(n % 10) + 1])

\* name.split(".")
RECURSIVE split(_)
split(name) ==
    IF \A i \in 1..Len(name) : name[i] # "."
    THEN <<name>>
    ELSE LET k == CHOOSE i \in 1..Len(name) :
                      name[i] = "." /\ \A j \in 1..(i - 1) : name[j] # "."
         IN  <<SubSeq(name, 1, k - 1)>> \o split(SubSeq(name, k + 1, Len(name)))

\* the strings int() takes here: one or more decimal digits
IsDecimal(part) ==
    Len(part) > 0 /\ \A i \in 1..Len(part) : \E d \in 1..10 : Digits[d] = part[i]

\* int(part) of such a string
RECURSIVE int(_)
int(part) ==
    IF Len(part) = 0 THEN 0
    ELSE 10 * int(SubSeq(part, 1, Len(part) - 1)) +
             (CHOOSE d \in 0..9 : Digits[d + 1] = part[Len(part)])

\* f"{__run__}.{epoch}.{self.model.config.inner_step}"
TagName(e, s) == __run__ \o <<".">> \o Format(e) \o <<".">> \o Format(s)

NoneTag == <<"N", "o", "n", "e">>

\* the middle disjunct of the deletion test is reached and evaluates int() at all
SameRun(name) ==
    /\ name # NoneTag
    /\ Len(split(name)) = 3
    /\ split(name)[1] = __run__

\* int(tag.name.split(".")[1]) raises ValueError
Unparsable(name) == SameRun(name) /\ ~IsDecimal(split(name)[2])

\* A deletion test that takes every other tag of the run, whatever its epoch.
StaleAnyEpoch(name, e, s) ==
    \/ name = NoneTag
    \/ SameRun(name)

\* the test of the deletion loop, for a tag it does not raise on
Stale(name, e, s) ==
    \/ name = NoneTag
    \/ SameRun(name) /\ int(split(name)[2]) > e
    \/ name = TagName(e, s)

\* the call ends: the future is done, the thread is free
Finish(result) ==
    /\ up_result' = result
    /\ up_pc' = "idle"
    /\ current_upload_future' = "done"
    /\ saved_blocks' = 0

minerKept == <<progressVars, controlVars, loopVars, handlerVars, worker_pc, workers_queued,
               batches_left, starts_left>>

\* the thread takes the submitted call
UploadTake ==
    /\ current_upload_future = "pending"
    /\ up_pc = "idle"
    /\ current_upload_future' = "running"
    /\ up_pc' = "repo"
    /\ attempt' = 0
    /\ up_exc' = 0
    /\ up_result' = "none"
    /\ slept' = <<>>
    /\ hub_calls' = {}
    /\ active_at_entry' = "none"
    /\ UNCHANGED <<avgVars, scoreVars, extraVars, minerKept, block_list_len, upload_args,
                   config_inner_step, saved_blocks, repo, tags>>

\* if not repo_exists(...): try: create_repo(...) except: raise.   attempt = 0
UploadRepo ==
    /\ up_pc = "repo"
    /\ active_at_entry' = IF training_active THEN "set" ELSE "clear"
    /\ IF repo
       THEN /\ hub_calls' = hub_calls \cup {"repo_exists"}
            /\ up_pc' = "attempt"
            /\ UNCHANGED <<repo, up_result, current_upload_future, saved_blocks>>
       ELSE /\ hub_calls' = hub_calls \cup {"repo_exists", "create_repo"}
            /\ \E ok \in BOOLEAN :
                  IF ok
                  THEN /\ repo' = TRUE
                       /\ up_pc' = "attempt"
                       /\ UNCHANGED <<up_result, current_upload_future, saved_blocks>>
                  ELSE /\ Finish("raised")
                       /\ UNCHANGED repo
    /\ UNCHANGED <<avgVars, scoreVars, extraVars, minerKept, block_list_len, upload_args, attempt,
                   up_exc, slept, config_inner_step, tags>>

\* UploadAttempt without the test of the training-active flag.
UploadAttemptIgnoresPause ==
    /\ up_pc = "attempt"
    /\ IF attempt < model_upload_retry_limit
       THEN /\ up_pc' = "save"
            /\ UNCHANGED <<up_result, current_upload_future, saved_blocks>>
       ELSE Finish("False")
    /\ UNCHANGED <<avgVars, scoreVars, extraVars, minerKept, block_list_len, upload_args, attempt,
                   up_exc, slept, config_inner_step, repo, tags, hub_calls,
                   active_at_entry>>

\* while attempt < self.model_upload_retry_limit:
\*     if not self.training_active.is_set(): return False
\* return False
UploadAttempt ==
    /\ up_pc = "attempt"
    /\ IF attempt < model_upload_retry_limit /\ training_active
       THEN /\ up_pc' = "save"
            /\ UNCHANGED <<up_result, current_upload_future, saved_blocks>>
       ELSE Finish("False")
    /\ UNCHANGED <<avgVars, scoreVars, extraVars, minerKept, block_list_len, upload_args, attempt,
                   up_exc, slept, config_inner_step, repo, tags, hub_calls,
                   active_at_entry>>

\* self.model.config.inner_step = self.local_progress.inner_step; save_pretrained;
\* torch.save of the optimizer state
UploadSave ==
    /\ up_pc = "save"
    /\ config_inner_step' = inner_step
    /\ saved_blocks' = block_list_len
    /\ \E ok \in BOOLEAN :
          IF ok
          THEN up_pc' = "push" /\ UNCHANGED up_exc
          ELSE up_pc' = "except" /\ up_exc' = attempt + 1
    /\ UNCHANGED <<avgVars, scoreVars, extraVars, minerKept, block_list_len, current_upload_future,
                   upload_args, attempt, up_result, slept, repo, tags, hub_calls,
                   active_at_entry>>

\* commit_message = f"... Inner Step {self.local_progress.inner_step}.";
\* upload_folder(...); refs = list_repo_refs(...)
UploadPush ==
    /\ up_pc = "push"
    /\ \E ok \in BOOLEAN :
          IF ok
          THEN /\ hub_calls' = hub_calls \cup {"upload_folder", "list_repo_refs"}
               /\ up_pc' = "tags"
               /\ UNCHANGED up_exc
          ELSE /\ hub_calls' = hub_calls \cup {"upload_folder"}
               /\ up_pc' = "except"
               /\ up_exc' = attempt + 1
    /\ UNCHANGED <<avgVars, scoreVars, extraVars, minerKept, block_list_len, current_upload_future,
                   upload_args, attempt, up_result, slept, config_inner_step, saved_blocks, repo, tags,
                   active_at_entry>>

\* for tag in refs.tags: if <test>: delete_tag(...); time.sleep(5)
\* The loop ends when no tag makes int() raise and no delete_tag raises; it raises
\* with the tags deleted that it met before the one it raised on.
UploadTags ==
    /\ up_pc = "tags"
    /\ \E stale \in {{name \in tags : ~Unparsable(name) /\
                         Stale(name, upload_args.epoch, config_inner_step)}} :
          \E deleted \in SUBSET stale :
             /\ tags' = tags \ deleted
             /\ hub_calls' = IF stale = {} THEN hub_calls
                             ELSE hub_calls \cup {"delete_tag"}
             /\ \/ /\ deleted = stale
                   /\ \A name \in tags : ~Unparsable(name)
                   /\ up_pc' = "create"
                   /\ UNCHANGED up_exc
                \/ /\ deleted # stale \/ \E name \in tags : Unparsable(name)
                   /\ up_pc' = "except"
                   /\ up_exc' = attempt + 1
    /\ UNCHANGED <<avgVars, scoreVars, extraVars, minerKept, block_list_len, current_upload_future,
                   upload_args, attempt, up_result, slept, config_inner_step, saved_blocks, repo,
                   active_at_entry>>

\* create_tag(...); cleanup_old_cache(...); self.model.config.block_list = [];
\* return True
UploadCreate ==
    /\ up_pc = "create"
    /\ hub_calls' = hub_calls \cup {"create_tag"}
    /\ \E ok \in BOOLEAN :
          IF ok
          THEN /\ tags' = tags \cup {TagName(upload_args.epoch, config_inner_step)}
               /\ block_list_len' = 0
               /\ Finish("True")
               /\ UNCHANGED up_exc
          ELSE /\ up_pc' = "except"
               /\ up_exc' = attempt + 1
               /\ UNCHANGED <<tags, block_list_len, up_result, current_upload_future, saved_blocks>>
    /\ UNCHANGED <<avgVars, scoreVars, extraVars, minerKept, upload_args, attempt, slept,
                   config_inner_step, repo, active_at_entry>>

\* UploadExcept with the delay slept after every failed attempt and one attempt more.
UploadExceptOneMore ==
    /\ up_pc = "except"
    /\ attempt' = attempt + 1
    /\ slept' = Append(slept, model_upload_retry_delay)
    /\ IF attempt' <= model_upload_retry_limit
       THEN /\ up_pc' = "attempt"
            /\ up_exc' = 0
            /\ UNCHANGED <<up_result, current_upload_future, saved_blocks>>
       ELSE /\ Finish("raised")
            /\ UNCHANGED up_exc
    /\ UNCHANGED <<avgVars, scoreVars, extraVars, minerKept, block_list_len, upload_args,
                   config_inner_step, repo, tags, hub_calls, active_at_entry>>

\* except Exception as e: attempt += 1
\*     if attempt < limit: time.sleep(self.model_upload_retry_delay) else: raise
UploadExcept ==
    /\ up_pc = "except"
    /\ attempt' = attempt + 1
    /\ IF attempt' < model_upload_retry_limit
       THEN /\ slept' = Append(slept, model_upload_retry_delay)
            /\ up_pc' = "attempt"
            /\ up_exc' = 0
            /\ UNCHANGED <<up_result, current_upload_future, saved_blocks>>
       ELSE /\ Finish("raised")
            /\ UNCHANGED <<slept, up_exc>>
    /\ UNCHANGED <<avgVars, scoreVars, extraVars, minerKept, block_list_len, upload_args,
                   config_inner_step, repo, tags, hub_calls, active_at_entry>>

upload_model ==
    \/ UploadTake \/ UploadRepo \/ UploadAttempt \/ UploadSave \/ UploadPush
    \/ UploadTags \/ UploadCreate \/ UploadExcept

\* No call was ever submitted: the state of this group where the thread is not
\* modelled.
UploadIdle ==
    /\ up_pc = "idle"
    /\ attempt = 0
    /\ up_exc = 0
    /\ up_result = "none"
    /\ slept = <<>>
    /\ config_inner_step = 0
    /\ saved_blocks = 0
    /\ repo = TRUE
    /\ tags = {}
    /\ hub_calls = {}
    /\ active_at_entry = "none"

\* A miner whose training was just started, no AllReduce request received yet:
\* the worker is submitted, block_list holds target_n_blocks blocks trained since
\* the last upload, no upload is in flight.
UploadInit ==
    /\ epoch \in 0..MaxInitEpoch
    /\ inner_step = 0
    /\ samples_accumulated = 0
    /\ training_active = TRUE
    /\ training_status = "RUNNING"
    /\ training_error = "None"
    /\ stop_event = FALSE
    /\ training_lock = 0
    /\ loop_owner = 0
    /\ current_upload_future = "None"
    /\ all_reduce_success_status = "unset"
    /\ ar_pc = [h \in Requests |-> "idle"]
    /\ completion = [h \in Requests |-> "None"]
    /\ ar_exc = [h \in Requests |-> "none"]
    /\ ar_result = [h \in Requests |-> "none"]
    /\ ar_cause = [h \in Requests |-> "none"]
    /\ epoch_at_entry = [h \in Requests |-> 0]
    /\ round_would = [h \in Requests |-> "ok"]
    /\ worker_pc = "none"
    /\ workers_queued = 1
    /\ block_list_len = target_n_blocks
    /\ batches_left = 0
    /\ starts_left = 0
    /\ upload_args = [epoch |-> epoch, inner_step |-> 0]
    /\ UploadIdle

UploadNext ==
    \/ \E h \in Requests : all_reduce(h)
    \/ _training_worker
    \/ upload_model

\* Tag names a repository may hold: the sentinel, tags of this run, a tag of
\* another run for a later epoch, a tag of this run whose epoch part is no number.
TagUniverse ==
    {NoneTag, <<"q", ".", "1", ".", "0">>, <<"r", ".", "x", ".", "0">>} \cup
    {TagName(e, s) : e \in 0..MaxTagEpoch, s \in 0..MaxInnerStep}

\* One call submitted by the training worker and not yet taken by the upload
\* thread.  The call was requested at (epoch, s); local_progress.inner_step may
\* have moved on since.  Either training is active, or the first AllReduce request
\* has paused it after the worker passed its wait and has returned with its round
\* failed.
TagsInit ==
    /\ epoch \in 0..MaxTagEpoch
    /\ inner_step \in 0..MaxInnerStep
    /\ samples_accumulated = 0
    /\ training_active \in BOOLEAN
    /\ training_status = IF training_active THEN "RUNNING" ELSE "PAUSED"
    /\ training_error = "None"
    /\ stop_event = FALSE
    /\ training_lock = 0
    /\ loop_owner = 0
    /\ current_upload_future = "pending"
    /\ all_reduce_success_status = IF training_active THEN "unset" ELSE "False"
    /\ ar_pc = [h \in Requests |-> IF ~training_active /\ h = 1 THEN "done" ELSE "idle"]
    /\ completion =
           [h \in Requests |-> IF ~training_active /\ h = 1 THEN "False" ELSE "None"]
    /\ ar_exc = [h \in Requests |-> "none"]
    /\ ar_result =
           [h \in Requests |-> IF ~training_active /\ h = 1 THEN "returned" ELSE "none"]
    /\ ar_cause =
           [h \in Requests |-> IF ~training_active /\ h = 1 THEN "call_raised" ELSE "none"]
    /\ epoch_at_entry = [h \in Requests |-> IF ~training_active /\ h = 1 THEN epoch ELSE 0]
    /\ round_would = [h \in Requests |-> "ok"]
    /\ worker_pc = "wait2"
    /\ workers_queued = 0
    /\ block_list_len = target_n_blocks
    /\ batches_left = 0
    /\ starts_left = 0
    /\ \E s \in 0..inner_step : upload_args = [epoch |-> epoch, inner_step |-> s]
    /\ up_pc = "idle"
    /\ attempt = 0
    /\ up_exc = 0
    /\ up_result = "none"
    /\ slept = <<>>
    /\ config_inner_step = 0
    /\ saved_blocks = 0
    /\ repo \in BOOLEAN
    /\ tags \in {held \in SUBSET TagUniverse : Cardinality(held) <= MaxTags}
    /\ hub_calls = {}
    /\ active_at_entry = "none"

TagsNext == upload_model

(***************************************************************************)
(* template/utils/misc.py: ttl_cache, _ttl_hash_gen and ttl_get_block.     *)
(* One decorated function is called with an argument (ttl_get_block: the   *)
(* neuron instance) at instants TimeStep seconds apart.  The wrapped       *)
(* function returns a value that names the instant it ran at (the chain    *)
(* block of that instant), or raises.  time.time() does not run backwards. *)
(***************************************************************************)
TimeStep == 6           \* seconds between the instants a call can be made at
MaxTime == 24           \* the last instant
NumSelves == 2          \* arguments the function is called with
TestTtl == 8            \* a ttl besides that of ttl_get_block

DefaultMaxsize == 128   \* maxsize: int = 128
UnboundedTtl == 65536   \* if ttl <= 0: ttl = 65536
BlockMaxsize == 1       \* @ttl_cache(maxsize=1, ttl=12)
BlockTtl == 12

Selves == 1..NumSelves

\* The decorators: that of ttl_get_block, the default size with a ttl, and the
\* default ttl of -1.
Decorators ==
    {[maxsize |-> BlockMaxsize, ttl |-> BlockTtl],
     [maxsize |-> DefaultMaxsize, ttl |-> TestTtl],
     [maxsize |-> DefaultMaxsize, ttl |-> -1]}

\* if ttl <= 0: ttl = 65536; hash_gen = _ttl_hash_gen(ttl)
seconds == IF cache_args.ttl <= 0 THEN UnboundedTtl ELSE cache_args.ttl

_ttl_hash_genFrozen(start, now) == 0

\* yield floor((time.time() - start_time) / seconds)
_ttl_hash_gen(start, now) == (now - start) \div seconds

Without(list, i) == [j \in 1..(Len(list) - 1) |-> IF j < i THEN list[j] ELSE list[j + 1]]

\* lru_cache(maxsize, typed): a new entry replaces the least recently used one
\* once maxsize entries are held
lru_cache(list, entry) ==
    IF Len(list) >= cache_args.maxsize
    THEN Append(Tail(list), entry)
    ELSE Append(list, entry)

NoCall ==
    [args |-> 0, at |-> -1, hit |-> FALSE, outcome |-> "none", value |-> -1,
     first |-> -1, computed |-> -1, invoked |-> -1]

\* wrapped(*args): th = next(hash_gen); return ttl_func(th, *args).  The body of
\* the generator starts at the first next(): start_time is the time of the first
\* call of the wrapper.
wrapped(self) ==
    LET start == IF start_time < 0 THEN time_now ELSE start_time
        th == _ttl_hash_gen(start, time_now)
        hits == {i \in 1..Len(lru) : lru[i].ttl_hash = th /\ lru[i].args = self}
        met == [NoCall EXCEPT !.args = self, !.at = time_now,
                              !.first = first_returned[self],
                              !.computed = last_computed[self],
                              !.invoked = last_invoked[self]]
    IN  /\ start_time' = start
        /\ IF hits # {}
           THEN \E i \in hits :
                  /\ lru' = Append(Without(lru, i), lru[i])
                  /\ last_call' = [met EXCEPT !.hit = TRUE, !.outcome = "returned",
                                              !.value = lru[i].value]
                  /\ UNCHANGED <<first_returned, last_computed, last_invoked>>
           ELSE \E ok \in BOOLEAN :
                  /\ last_invoked' = [last_invoked EXCEPT ![self] = time_now]
                  /\ IF ok
                     THEN /\ lru' = lru_cache(lru, [ttl_hash |-> th, args |-> self,
                                                    value |-> time_now])
                          /\ last_computed' = [last_computed EXCEPT ![self] = time_now]
                          /\ first_returned' =
                                 IF first_returned[self] < 0
                                 THEN [first_returned EXCEPT ![self] = time_now]
                                 ELSE first_returned
                          /\ last_call' = [met EXCEPT !.outcome = "returned",
                                                      !.value = time_now]
                     ELSE /\ last_call' = [met EXCEPT !.outcome = "raised"]
                          /\ UNCHANGED <<lru, last_computed, first_returned>>
        /\ UNCHANGED <<minerVars, avgVars, scoreVars, uploadVars, moreVars, rewardVars, fetchVars, blacklistVars, time_now, cache_args>>

\* TimeStep seconds pass
Tick ==
    /\ time_now + TimeStep <= MaxTime
    /\ time_now' = time_now + TimeStep
    /\ UNCHANGED <<minerVars, avgVars, scoreVars, uploadVars, moreVars, rewardVars, fetchVars, blacklistVars, cache_args, start_time, lru,
                   first_returned, last_computed, last_invoked, last_call>>

\* The decorated function before its first call.
CacheFresh ==
    /\ time_now = 0
    /\ start_time = -1
    /\ lru = <<>>
    /\ first_returned = [a \in Selves |-> -1]
    /\ last_computed = [a \in Selves |-> -1]
    /\ last_invoked = [a \in Selves |-> -1]
    /\ last_call = NoCall

CacheIdle == CacheFresh /\ cache_args = [maxsize |-> BlockMaxsize, ttl |-> BlockTtl]

CacheInit == CacheFresh /\ cache_args \in Decorators

CacheNext == Tick \/ \E self \in Selves : wrapped(self)

(***************************************************************************)
(* validator/reward.py: score_uid.  A commit is its id, its creation time  *)
(* and the block_list of the configuration saved in it; a loaded model is  *)
(* the revision it was loaded from and the blocks replayed on it since.    *)
(* A fetched dataset is replayed in one step, which completes or raises.   *)
(* Commits of the model are less than a day apart.                         *)
(***************************************************************************)
MaxCommits == 3         \* commits a repository holds
MaxReplay == 2          \* length of a saved block_list
NumBlocks == 2          \* distinct block numbers

BlockLists == UNION {[1..k -> 1..NumBlocks] : k \in 0..MaxReplay}

\* list_repo_commits(...): the last commit first.  Only the first two are
\* kept by [:2], so the block_list of an older commit is never read and is
\* left empty here.
Histories ==
    UNION {{[i \in 1..n |-> [commit_id |-> n + 1 - i, created_at |-> 10 * (n + 1 - i),
                             block_list |-> IF i <= 2 THEN lists[i] ELSE <<>>]]
            : lists \in [1..(IF n < 2 THEN n ELSE 2) -> BlockLists]}
           : n \in 0..MaxCommits}

\* list_repo_commits(...)[:2]
commits == SubSeq(repo_commits, 1, IF Len(repo_commits) < 2 THEN Len(repo_commits) ELSE 2)

NoModel == [revision |-> 0, replayed |-> <<>>]
NoValue == [shape |-> "none"]

\* score_models(model_1, model_2): the mean cosine similarity of the two states
score_models(model_1, model_2) ==
    [shape |-> "similarity", model_1 |-> model_1, model_2 |-> model_2]

SuDone(result, exc) ==
    /\ su_pc' = "done"
    /\ su_result' = result
    /\ su_exc' = exc

\* lines 146-173: the early return, the two commits, the two models, the block list
ScoreUidLoad ==
    /\ su_pc = "ready"
    /\ IF ~has_repo
       THEN /\ SuDone([shape |-> "int", value |-> 0], "none")
            /\ UNCHANGED <<model, model_final, blocks>>
       ELSE IF Len(commits) < 2
       THEN /\ SuDone(NoValue, "IndexError")
            /\ UNCHANGED <<model, model_final, blocks>>
       ELSE \E loaded \in BOOLEAN :
              IF loaded
              THEN /\ model' = [revision |-> commits[1].commit_id, replayed |-> <<>>]
                   /\ model_final' = commits[2].commit_id
                   /\ blocks' = commits[2].block_list
                   /\ su_pc' = "loop"
                   /\ UNCHANGED <<su_result, su_exc>>
              ELSE /\ SuDone(NoValue, "OSError")
                   /\ UNCHANGED <<model, model_final, blocks>>
    /\ UNCHANGED <<minerVars, avgVars, scoreVars, uploadVars, moreVars, cacheVars, fetchVars, blacklistVars, has_repo,
                   repo_commits, block_idx, validator_samples, su_cause>>

\* for block in blocks: dataset = await fetch_training_data(self, block)
ScoreUidFetch ==
    /\ su_pc = "loop"
    /\ IF block_idx > Len(blocks)
       THEN su_pc' = "score" /\ UNCHANGED su_cause
       ELSE \E ok \in BOOLEAN :
              IF ok
              THEN su_pc' = "replay" /\ UNCHANGED su_cause
              ELSE su_pc' = "except" /\ su_cause' = "fetch"
    /\ UNCHANGED <<minerVars, avgVars, scoreVars, uploadVars, moreVars, cacheVars, fetchVars, blacklistVars, has_repo,
                   repo_commits, model, model_final, blocks, block_idx,
                   validator_samples, su_result, su_exc>>

\* for inputs, labels in dataset: forward, backward, inner_optimizer.step()
ScoreUidReplay ==
    /\ su_pc = "replay"
    /\ \E ok \in BOOLEAN :
          IF ok
          THEN /\ model' = [model EXCEPT !.replayed = Append(@, blocks[block_idx])]
               /\ validator_samples' = validator_samples + 1
               /\ block_idx' = block_idx + 1
               /\ su_pc' = "loop"
               /\ UNCHANGED su_cause
          ELSE /\ su_pc' = "except"
               /\ su_cause' = "step"
               /\ UNCHANGED <<model, validator_samples, block_idx>>
    /\ UNCHANGED <<minerVars, avgVars, scoreVars, uploadVars, moreVars, cacheVars, fetchVars, blacklistVars, has_repo,
                   repo_commits, model_final, blocks, su_result, su_exc>>

ScoreUidExceptReraises ==
    /\ su_pc = "except"
    /\ SuDone(NoValue, su_cause)
    /\ UNCHANGED <<minerVars, avgVars, scoreVars, uploadVars, moreVars, cacheVars, fetchVars, blacklistVars, has_repo,
                   repo_commits, model, model_final, blocks, block_idx,
                   validator_samples, su_cause>>

\* except Exception: return torch.tensor([1.0])
ScoreUidExcept ==
    /\ su_pc = "except"
    /\ SuDone([shape |-> "tensor", value |-> <<One>>], "none")
    /\ UNCHANGED <<minerVars, avgVars, scoreVars, uploadVars, moreVars, cacheVars, fetchVars, blacklistVars, has_repo,
                   repo_commits, model, model_final, blocks, block_idx,
                   validator_samples, su_cause>>

\* lines 208-220: rewards = score_models(self.model, model_final), or 1.0 when it
\* raises; return rewards, latest_commit, time_delta, blocks
ScoreUidScore ==
    /\ su_pc = "score"
    /\ \E ok \in BOOLEAN :
          SuDone([shape |-> "tuple",
                  rewards |-> IF ok THEN score_models(model, model_final)
                              ELSE [shape |-> "float", value |-> One],
                  latest_commit |-> commits[1].commit_id,
                  time_delta |-> commits[1].created_at - commits[2].created_at,
                  blocks |-> blocks],
                 "none")
    /\ UNCHANGED <<minerVars, avgVars, scoreVars, uploadVars, moreVars, cacheVars, fetchVars, blacklistVars, has_repo,
                   repo_commits, model, model_final, blocks, block_idx,
                   validator_samples, su_cause>>

score_uid ==
    \/ ScoreUidLoad \/ ScoreUidFetch \/ ScoreUidReplay \/ ScoreUidExcept
    \/ ScoreUidScore

RewardFresh ==
    /\ su_pc = "ready"
    /\ model = NoModel
    /\ model_final = 0
    /\ blocks = <<>>
    /\ block_idx = 1
    /\ validator_samples = 0
    /\ su_cause = "none"
    /\ su_result = NoValue
    /\ su_exc = "none"

RewardIdle == RewardFresh /\ has_repo = FALSE /\ repo_commits = <<>>

\* The UID to score: with or without a published repository and its commits.
RewardInit ==
    /\ RewardFresh
    /\ has_repo \in BOOLEAN
    /\ repo_commits \in Histories
    /\ has_repo = FALSE => repo_commits = <<>>

(***************************************************************************)
(* neurons/miner.py: Miner.fetch_training_data.  retry_limit and           *)
(* retry_delay are attributes the miner reads and src/ does not set: they  *)
(* are inputs of the call.  A dataset is named by the block it was made    *)
(* for and the pass of the loop that made it.                              *)
(***************************************************************************)
MaxRetryLimit == 3      \* largest retry_limit
MaxRetryDelay == 2      \* largest retry_delay

RetryLimits == 0..MaxRetryLimit

NoError == [raised_by |-> "none", try |-> 0]

FdDone(result, exc) ==
    /\ fd_pc' = "done"
    /\ fd_result' = result
    /\ fd_exc' = exc

\* while attempt < self.retry_limit: try: next_pages, shuffle, create; return dataset
FetchTry ==
    /\ fd_pc = "loop"
    /\ IF fd_attempt < retry_limit
       THEN /\ fd_tries' = fd_tries + 1
            /\ \E outcome \in {"dataset", "next_pages", "create"} :
                  IF outcome = "dataset"
                  THEN /\ FdDone([shape |-> "dataset", offset |-> current_block,
                                  try |-> fd_tries + 1], NoError)
                       /\ UNCHANGED fd_error
                  ELSE /\ fd_pc' = "except"
                       /\ fd_error' = [raised_by |-> outcome, try |-> fd_tries + 1]
                       /\ UNCHANGED <<fd_result, fd_exc>>
       ELSE \* the loop ends: the function returns None
            /\ FdDone([shape |-> "None"], NoError)
            /\ UNCHANGED <<fd_tries, fd_error>>
    /\ UNCHANGED <<minerVars, avgVars, scoreVars, uploadVars, moreVars, cacheVars, rewardVars, blacklistVars,
                   retry_limit, retry_delay, current_block, fd_attempt, fd_slept>>

FetchExceptNeverRaises ==
    /\ fd_pc = "except"
    /\ fd_attempt' = fd_attempt + 1
    /\ fd_pc' = "loop"
    /\ fd_slept' = IF fd_attempt' < retry_limit THEN Append(fd_slept, retry_delay) ELSE fd_slept
    /\ UNCHANGED <<minerVars, avgVars, scoreVars, uploadVars, moreVars, cacheVars, rewardVars, blacklistVars,
                   retry_limit, retry_delay, current_block, fd_tries, fd_error, fd_result,
                   fd_exc>>

\* except Exception as e: attempt += 1; sleep and go on, or raise
FetchExcept ==
    /\ fd_pc = "except"
    /\ fd_attempt' = fd_attempt + 1
    /\ IF fd_attempt' < retry_limit
       THEN /\ fd_slept' = Append(fd_slept, retry_delay)
            /\ fd_pc' = "loop"
            /\ UNCHANGED <<fd_result, fd_exc>>
       ELSE /\ FdDone([shape |-> "none"], fd_error)
            /\ UNCHANGED fd_slept
    /\ UNCHANGED <<minerVars, avgVars, scoreVars, uploadVars, moreVars, cacheVars, rewardVars, blacklistVars,
                   retry_limit, retry_delay, current_block, fd_tries, fd_error>>

fetch_training_data == FetchTry \/ FetchExcept

FetchFresh ==
    /\ fd_pc = "loop"
    /\ fd_attempt = 0
    /\ fd_tries = 0
    /\ fd_error = NoError
    /\ fd_slept = <<>>
    /\ fd_result = [shape |-> "none"]
    /\ fd_exc = NoError

FetchIdle == FetchFresh /\ retry_limit = 1 /\ retry_delay = 1 /\ current_block = 1

FetchInit ==
    /\ FetchFresh
    /\ retry_limit \in RetryLimits
    /\ retry_delay \in 1..MaxRetryDelay
    /\ current_block \in 1..NumBlocks

(***************************************************************************)
(* neurons/miner.py: Miner.blacklist_base.  The metagraph is the snapshot  *)
(* the call reads: metagraph.axons[uid].hotkey and                         *)
(* metagraph.neurons[uid].stake.tao for every UID, UIDs counted from 0;    *)
(* metagraph.hotkeys lists the hotkeys of metagraph.axons.                 *)
(***************************************************************************)
MaxNeurons == 2         \* UIDs of the metagraph
MaxStake == 2           \* largest stake and largest vpermit_tao_limit

Hotkeys == {"a", "b"}
Callers == Hotkeys \cup {"c"}

\* a hotkey is registered under one UID
Metagraphs ==
    {m \in UNION {[1..n -> [hotkey : Hotkeys, stake : 0..MaxStake]] : n \in 0..MaxNeurons} :
        \A i, j \in DOMAIN m : (m[i].hotkey = m[j].hotkey) => (i = j)}

\* for _uid, _axon in enumerate(self.metagraph.axons): the first match, or None
uid_of(hotkey) ==
    LET matches == {i \in 1..Len(metagraph) : metagraph[i].hotkey = hotkey}
    IN  IF matches = {} THEN None
        ELSE Some((CHOOSE i \in matches : \A j \in matches : i <= j) - 1)

\* self.metagraph.hotkeys
hotkeys == [i \in 1..Len(metagraph) |-> metagraph[i].hotkey]

StakeCheckedAlways(force, allow) == force

\* if self.config.blacklist.force_validator_permit and (not ...allow_non_registered)
StakeChecked(force, allow) == force /\ ~allow

blacklist_base ==
    /\ bl_result = <<>>
    /\ bl_result' =
          LET uid == uid_of(caller)
          IN  IF uid = None
              THEN <<TRUE, "Blacklisted a non registered hotkey's request">>
              ELSE IF /\ StakeChecked(force_validator_permit, allow_non_registered)
                      /\ metagraph[uid[1] + 1].stake < vpermit_tao_limit
              THEN <<TRUE, "Blacklisted a low stake request">>
              ELSE IF caller \notin Elements(hotkeys)
              THEN <<TRUE, "Unrecognized hotkey">>
              ELSE <<FALSE, "Hotkey recognized!">>
    /\ UNCHANGED <<minerVars, avgVars, scoreVars, uploadVars, moreVars, cacheVars, rewardVars,
                   fetchVars, metagraph, force_validator_permit, allow_non_registered,
                   vpermit_tao_limit, caller>>

BlacklistIdle ==
    /\ metagraph = <<>>
    /\ force_validator_permit = FALSE
    /\ allow_non_registered = FALSE
    /\ vpermit_tao_limit = 1
    /\ caller = "c"
    /\ bl_result = <<>>

BlacklistInit ==
    /\ metagraph \in Metagraphs
    /\ force_validator_permit \in BOOLEAN
    /\ allow_non_registered \in BOOLEAN
    /\ vpermit_tao_limit \in 1..MaxStake
    /\ caller \in Callers
    /\ bl_result = <<>>

(***************************************************************************)
(* neurons/miner.py: Miner.__init__ up to _sync_with_global_model, and the *)
(* miner that runs afterwards.  A local epoch that is None is written -1.  *)
(* load_state_from_peer is not among the sources: it is taken to install   *)
(* the state of the epoch it is given and to leave the inner-step counter  *)
(* (0 here) alone.  Training is started once construction has returned.    *)
(***************************************************************************)
MaxGlobalEpoch == 1     \* global epochs 0..MaxGlobalEpoch

\* self.local_progress.epoch is None
IsNone(e) == e < 0

should_sync_model == IsNone(epoch) \/ epoch # global_epoch \/ ~schema_match

\* lines 223-255; from_pretrained of the global checkpoint may raise
_sync_with_global_model ==
    /\ sync_pc = "ready"
    /\ \E ok \in BOOLEAN :
          IF ~ok
          THEN /\ sync_pc' = "raised"
               /\ UNCHANGED <<peer_loaded, epoch, current_upload_future, upload_args>>
          ELSE /\ sync_pc' = "done"
               /\ IF should_sync_model
                  THEN /\ peer_loaded' = TRUE
                       /\ epoch' = global_epoch
                       /\ current_upload_future' =
                              start_background_upload(current_upload_future)
                       /\ upload_args' = submitted(current_upload_future, upload_args,
                                                   global_epoch, 0)
                  ELSE UNCHANGED <<peer_loaded, epoch, current_upload_future, upload_args>>
    /\ UNCHANGED <<avgVars, scoreVars, cacheVars, rewardVars, fetchVars, blacklistVars,
                   gradVars, uploadRun, inner_step, samples_accumulated, controlVars, loopVars,
                   handlerVars, workerVars, global_epoch, schema_match>>

\* The construction is over and the sync met a matching local checkpoint.
SyncIdle ==
    /\ global_epoch = 0
    /\ schema_match = TRUE
    /\ sync_pc = "done"
    /\ peer_loaded = FALSE

\* The miner when _load_model reaches line 200.
SyncInit ==
    /\ epoch \in -1..MaxInitEpoch
    /\ inner_step = 0
    /\ samples_accumulated = 0
    /\ training_active = TRUE
    /\ training_status = "STOPPED"
    /\ training_error = "None"
    /\ stop_event = FALSE
    /\ training_lock = 0
    /\ loop_owner = 0
    /\ current_upload_future = "None"
    /\ all_reduce_success_status = "unset"
    /\ ar_pc = [h \in Requests |-> "idle"]
    /\ completion = [h \in Requests |-> "None"]
    /\ ar_exc = [h \in Requests |-> "none"]
    /\ ar_result = [h \in Requests |-> "none"]
    /\ ar_cause = [h \in Requests |-> "none"]
    /\ epoch_at_entry = [h \in Requests |-> 0]
    /\ round_would = [h \in Requests |-> "ok"]
    /\ worker_pc = "none"
    /\ workers_queued = 0
    /\ block_list_len = 0
    /\ batches_left = 0
    /\ starts_left = MaxStarts
    /\ upload_args = [epoch |-> 0, inner_step |-> 0]
    /\ UploadIdle
    /\ global_epoch \in 0..MaxGlobalEpoch
    /\ schema_match \in BOOLEAN
    /\ sync_pc = "ready"
    /\ peer_loaded = FALSE

SyncNext ==
    \/ _sync_with_global_model
    \/ sync_pc = "done" /\ start_continuous_training
    \/ _training_worker
    \/ upload_model

(***************************************************************************)
(* template/utils/misc.py: DTGradientAverager.use_averaged_gradients.      *)
(* A tensor is named by where it came from: the gradient a parameter held  *)
(* on entry ("old"), the averaged gradient of a parameter ("avg", kept on  *)
(* the host), or the copy Tensor.to made of it ("moved").  The wrapped     *)
(* step may change the gradient a parameter refers to in place, drop it,   *)
(* return or raise.                                                        *)
(***************************************************************************)
NumParams == 2          \* len(self.parameters)

Params == 1..NumParams
Devices == {"cpu", "cuda"}

NoneGrad == [kind |-> "None", of |-> 0]
Tensor(kind, p) == [kind |-> kind, of |-> p]
Tensors == {Tensor(kind, p) : kind \in {"old", "avg", "moved"}, p \in Params}

\* tensor.device
device(t, devs) == IF t.kind = "avg" THEN "cpu" ELSE devs[t.of]

\* new_grad.to(param.device): the tensor itself when it is on that device already,
\* a copy on the device otherwise
to(t, dev, devs) == IF device(t, devs) = dev THEN t ELSE Tensor("moved", t.of)

\* lines 231-235: the assert and the capture of the gradients
UagEnter ==
    /\ uag_pc = "ready"
    /\ IF averaged_len # NumParams
       THEN /\ uag_pc' = "exited"
            /\ uag_exc' = "AssertionError"
            /\ UNCHANGED <<old_grads, uag_k>>
       ELSE /\ old_grads' = param_grad
            /\ uag_k' = 1
            /\ uag_pc' = "assign"
            /\ UNCHANGED uag_exc
    /\ UNCHANGED <<minerVars, avgVars, scoreVars, uploadVars, cacheVars, rewardVars,
                   fetchVars, blacklistVars, syncVars, param_device, had_grad,
                   param_grad, data, averaged_len, touched>>

\* lines 236-239: one pass of the loop, then the yield; Tensor.to may raise
UagAssign ==
    /\ uag_pc = "assign"
    /\ IF uag_k > NumParams
       THEN /\ uag_pc' = "scope"
            /\ UNCHANGED <<param_grad, data, uag_k, uag_exc>>
       ELSE \E ok \in BOOLEAN :
              IF ok
              THEN \E new \in {to(Tensor("avg", uag_k), param_device[uag_k],
                                  param_device)} :
                     /\ param_grad' = [param_grad EXCEPT ![uag_k] = new]
                     /\ data' = [data EXCEPT ![new] = data[Tensor("avg", uag_k)]]
                     /\ uag_k' = uag_k + 1
                     /\ UNCHANGED <<uag_pc, uag_exc>>
              ELSE /\ uag_pc' = "finally"
                   /\ uag_exc' = "RuntimeError"
                   /\ UNCHANGED <<param_grad, data, uag_k>>
    /\ UNCHANGED <<minerVars, avgVars, scoreVars, uploadVars, cacheVars, rewardVars,
                   fetchVars, blacklistVars, syncVars, param_device, had_grad,
                   averaged_len, old_grads, touched>>

\* the wrapped step changes the gradient of a parameter in place (grad.zero_())
StepInPlace(p) ==
    /\ uag_pc = "scope"
    /\ param_grad[p] # NoneGrad
    /\ data[param_grad[p]] # 0
    /\ data' = [data EXCEPT ![param_grad[p]] = 0]
    /\ touched' = touched \cup {p}
    /\ UNCHANGED <<minerVars, avgVars, scoreVars, uploadVars, cacheVars, rewardVars,
                   fetchVars, blacklistVars, syncVars, param_device, had_grad,
                   param_grad, averaged_len, old_grads, uag_pc, uag_k, uag_exc>>

\* the wrapped step drops the gradient of a parameter (param.grad = None)
StepSetNone(p) ==
    /\ uag_pc = "scope"
    /\ param_grad[p] # NoneGrad
    /\ param_grad' = [param_grad EXCEPT ![p] = NoneGrad]
    /\ touched' = touched \cup {p}
    /\ UNCHANGED <<minerVars, avgVars, scoreVars, uploadVars, cacheVars, rewardVars,
                   fetchVars, blacklistVars, syncVars, param_device, had_grad,
                   data, averaged_len, old_grads, uag_pc, uag_k, uag_exc>>

\* the wrapped step ends: the generator is resumed, or the exception thrown into it
StepEnds ==
    /\ uag_pc = "scope"
    /\ uag_pc' = "finally"
    /\ \E raised \in BOOLEAN : uag_exc' = IF raised THEN "StepError" ELSE "none"
    /\ UNCHANGED <<minerVars, avgVars, scoreVars, uploadVars, cacheVars, rewardVars,
                   fetchVars, blacklistVars, syncVars, param_device, had_grad,
                   param_grad, data, averaged_len, old_grads, uag_k, touched>>

\* A finally block that gives back only the gradients that were tensors.
UagFinallySkipsNone ==
    /\ uag_pc = "finally"
    /\ param_grad' = [p \in Params |->
                        IF old_grads[p] = NoneGrad THEN param_grad[p] ELSE old_grads[p]]
    /\ uag_pc' = "exited"
    /\ UNCHANGED <<minerVars, avgVars, scoreVars, uploadVars, cacheVars, rewardVars,
                   fetchVars, blacklistVars, syncVars, param_device, had_grad,
                   data, averaged_len, old_grads, uag_k, uag_exc, touched>>

\* lines 240-242: for param, old_grad in zip(...): param.grad = old_grad
UagFinally ==
    /\ uag_pc = "finally"
    /\ param_grad' = [p \in Params |-> old_grads[p]]
    /\ uag_pc' = "exited"
    /\ UNCHANGED <<minerVars, avgVars, scoreVars, uploadVars, cacheVars, rewardVars,
                   fetchVars, blacklistVars, syncVars, param_device, had_grad,
                   data, averaged_len, old_grads, uag_k, uag_exc, touched>>

use_averaged_gradients ==
    \/ UagEnter \/ UagAssign \/ UagFinally
    \/ StepEnds
    \/ \E p \in Params : StepInPlace(p) \/ StepSetNone(p)

\* the contents of the tensors before the scope: a gradient holds the number of
\* its parameter, an averaged gradient ten more, a copy not made yet nothing
Contents(t) == IF t.kind = "old" THEN t.of ELSE IF t.kind = "avg" THEN 10 + t.of ELSE 0

EntryGrad(p) == IF had_grad[p] THEN Tensor("old", p) ELSE NoneGrad

GradFresh ==
    /\ param_grad = [p \in Params |-> EntryGrad(p)]
    /\ data = [t \in Tensors |-> Contents(t)]
    /\ old_grads = <<>>
    /\ uag_pc = "ready"
    /\ uag_k = 0
    /\ uag_exc = "none"
    /\ touched = {}

GradIdle ==
    /\ param_device = [p \in Params |-> "cpu"]
    /\ had_grad = [p \in Params |-> FALSE]
    /\ averaged_len = NumParams
    /\ GradFresh

GradInit ==
    /\ param_device \in [Params -> Devices]
    /\ had_grad \in [Params -> BOOLEAN]
    /\ averaged_len \in {NumParams - 1, NumParams}
    /\ GradFresh

(***************************************************************************)
(* The specifications.                                                     *)
(***************************************************************************)
MoreIdle == SyncIdle /\ GradIdle

ExtraIdle == CacheIdle /\ RewardIdle /\ FetchIdle /\ BlacklistIdle /\ MoreIdle

InitMiner ==
    /\ MinerInit /\ AvgIdle /\ ScoreIdle /\ UploadIdle /\ ExtraIdle
    /\ upload_args = [epoch |-> 0, inner_step |-> 0]

SpecMiner == InitMiner /\ [][MinerNext]_vars

MinerIdle ==
    /\ MinerInit
    /\ epoch = 0
    /\ UploadIdle
    /\ upload_args = [epoch |-> 0, inner_step |-> 0]

InitAvg == AvgInit /\ MinerIdle /\ ScoreIdle /\ ExtraIdle

SpecAvg == InitAvg /\ [][AvgNext]_vars

InitScores == ScoreInit /\ MinerIdle /\ AvgIdle /\ ExtraIdle

SpecScores == InitScores /\ [][ScoreNext]_vars

InitUpload == UploadInit /\ AvgIdle /\ ScoreIdle /\ ExtraIdle

SpecUpload == InitUpload /\ [][UploadNext]_vars

InitTags == TagsInit /\ AvgIdle /\ ScoreIdle /\ ExtraIdle

SpecTags == InitTags /\ [][TagsNext]_vars

InitCache ==
    CacheInit /\ MinerIdle /\ AvgIdle /\ ScoreIdle /\ RewardIdle /\ FetchIdle /\ BlacklistIdle
    /\ MoreIdle

SpecCache == InitCache /\ [][CacheNext]_vars

InitReward ==
    RewardInit /\ MinerIdle /\ AvgIdle /\ ScoreIdle /\ CacheIdle /\ FetchIdle /\ BlacklistIdle
    /\ MoreIdle

SpecReward == InitReward /\ [][score_uid]_vars

InitFetch ==
    FetchInit /\ MinerIdle /\ AvgIdle /\ ScoreIdle /\ CacheIdle /\ RewardIdle /\ BlacklistIdle
    /\ MoreIdle

SpecFetch == InitFetch /\ [][fetch_training_data]_vars

InitBlacklist ==
    BlacklistInit /\ MinerIdle /\ AvgIdle /\ ScoreIdle /\ CacheIdle /\ RewardIdle /\ FetchIdle
    /\ MoreIdle

SpecBlacklist == InitBlacklist /\ [][blacklist_base]_vars

InitSync ==
    SyncInit /\ AvgIdle /\ ScoreIdle /\ CacheIdle /\ RewardIdle /\ FetchIdle /\ BlacklistIdle
    /\ GradIdle

InitGrad ==
    GradInit /\ MinerIdle /\ AvgIdle /\ ScoreIdle /\ CacheIdle /\ RewardIdle /\ FetchIdle
    /\ BlacklistIdle /\ SyncIdle

SpecGrad == InitGrad /\ [][use_averaged_gradients]_vars

SpecSync == InitSync /\ [][SyncNext]_vars

InitExecutor ==
    /\ ExecInit /\ AvgIdle /\ ScoreIdle /\ UploadIdle /\ ExtraIdle
    /\ upload_args = [epoch |-> 0, inner_step |-> 0]

SpecExecutor == InitExecutor /\ [][ExecNext]_vars

(***************************************************************************)
(* Claims about Miner.all_reduce (SpecMiner).                              *)
(***************************************************************************)

\* C1: when the handler returns from a request whose averaging step would succeed
\* and whose weight sample would change without not-a-number values (and whose
\* flushing inner step did not fail), the completion flag is true, the epoch is
\* one more than at entry and inner_step and samples_accumulated are 0.
C1_SuccessfulRoundAdvancesEpoch ==
    \A h \in Requests :
        (ar_pc[h] = "done" /\ round_would[h] = "ok" /\ ar_cause[h] # "inner_step_raised")
            => /\ completion[h] = "True"
               /\ epoch = epoch_at_entry[h] + 1
               /\ inner_step = 0
               /\ samples_accumulated = 0

\* C2 (as claimed): after every invocation of all_reduce, succeeded or failed,
\* training has been resumed when the handler has returned.
C2_AlwaysResumed ==
    \A h \in Requests : ar_pc[h] = "done" => training_active

\* C2 (amended): the finalization step of all_reduce resumes training (flag set,
\* status RUNNING) exactly when the response's completion is true; on a failed
\* round it records all_reduce_success_status = False and leaves the
\* training-active flag and the status as the pause left them.
C2_ResumedOnlyOnCompletion ==
    [][\A h \in Requests :
          (ar_pc[h] = "finally" /\ ar_pc'[h] = "done")
              => IF completion[h] = "True"
                 THEN training_active' /\ training_status' = "RUNNING"
                 ELSE /\ training_active' = training_active
                      /\ training_status' = training_status
                      /\ all_reduce_success_status' = "False"]_vars

\* C2 witness: a failed round has returned and training is still paused.
C2_FailedRoundLeavesPaused ==
    \E h \in Requests :
        /\ ar_pc[h] = "done"
        /\ completion[h] = "False"
        /\ ~training_active
        /\ training_status = "PAUSED"
        /\ all_reduce_success_status = "False"

\* C3: all_reduce ends by returning the response, never by raising; whenever
\* the delegated call raised, reported non-completion, or another exception
\* occurred inside the handler, the returned completion flag is false.
C3_AlwaysReturnsResponse ==
    \A h \in Requests :
        /\ ar_result[h] # "raised"
        /\ ar_pc[h] = "done"
              => /\ ar_result[h] = "returned"
                 /\ ar_exc[h] = "none"
                 /\ (ar_cause[h] # "none" => completion[h] = "False")

\* C3 witness: an exception outside the inner try (the flushing inner step) was
\* turned into AllReduceError by the outer handler, and the response was still
\* returned with completion false.
C3_ReturnedAfterOuterException ==
    \E h \in Requests :
        /\ ar_pc[h] = "done"
        /\ ar_cause[h] = "inner_step_raised"
        /\ ar_result[h] = "returned"
        /\ completion[h] = "False"

(***************************************************************************)
(* Claims about AveragingHandler's rounds (SpecAvg).                       *)
(***************************************************************************)
Exited(r) == rounds[r].pc = "exited"

ResultKeys == {"failed_peers", "participating_peers", "modes", "bandwidths"}

\* C4: run_validator_allreduce never raises to its caller: when the averaging
\* step yields no result, or any step of the round raises, it returns (False, {});
\* it returns True only together with a result holding failed_peers,
\* participating_peers, modes and bandwidths, as the averaging step gave them.
C4_ValidatorNeverRaises ==
    \A r \in Rounds :
        (role = "validator" /\ Exited(r)) =>
            /\ rounds[r].result = "returned"
            /\ rounds[r].ret.success \in {"True", "False"}
            /\ (rounds[r].fail # "none") =>
                   rounds[r].ret = [success |-> "False", results |-> EmptyDict]
            /\ (rounds[r].ret.success = "True") =>
                   /\ rounds[r].fail = "none"
                   /\ DOMAIN rounds[r].ret.results = ResultKeys
                   /\ rounds[r].ret.results = ResultDict(rounds[r].averaging_result)

\* A validator round whose outer step raised has returned (False, {}).
C4_ReturnedFalseAfterException ==
    \E r \in Rounds :
        /\ role = "validator"
        /\ Exited(r)
        /\ rounds[r].fail = "outer"
        /\ rounds[r].result = "returned"
        /\ rounds[r].ret.success = "False"

C6_TimeoutReachesCallerAsTimeoutError ==
    \A r \in Rounds :
        (role = "miner" /\ Exited(r) /\ rounds[r].fail # "none") =>
            /\ rounds[r].result = "raised"
            /\ rounds[r].exc.type \in DefinedErrors
            /\ (rounds[r].fail = "timeout") =>
                   rounds[r].exc.type = "GradientAveragingTimeoutError"
            /\ (rounds[r].fail = "averaging") =>
                   rounds[r].exc.type = "GradientAveragingError"

\* C6 (amended): every failure inside run_miner_allreduce reaches the caller as a
\* plain AllReduceError; the timeout error and the other-averaging-failure error
\* are raised inside the round and reach the caller only as the wrapped cause of
\* that AllReduceError, which is what tells the two apart.
C6_FailureReachesCallerWrapped ==
    \A r \in Rounds :
        (role = "miner" /\ Exited(r)) =>
            /\ (rounds[r].fail = "none") <=> (rounds[r].result = "returned")
            /\ (rounds[r].fail # "none") =>
                   /\ rounds[r].result = "raised"
                   /\ rounds[r].exc.type = "AllReduceError"
                   /\ (rounds[r].fail = "timeout") <=>
                          (rounds[r].exc.cause = "GradientAveragingTimeoutError")
                   /\ (rounds[r].fail = "averaging") <=>
                          (rounds[r].exc.cause = "GradientAveragingError")

\* A miner round whose averaging step timed out has raised to its caller.
C6_TimeoutRaised ==
    \E r \in Rounds :
        /\ role = "miner"
        /\ Exited(r)
        /\ rounds[r].fail = "timeout"
        /\ rounds[r].result = "raised"

InRound(r) ==
    rounds[r].pc \in {"clip", "step", "sample", "outer", "validate", "except", "finally"}

InLoad(l) == ld_pc[l] \in {"loading", "clear"}

\* C7: model loading and the miner-side round are mutually exclusive: no round is
\* between setting and clearing the loading flag while a load that took the flag
\* is in progress, no two rounds are, and no two loads are in progress at once.
C7_LoadingAndRoundExclusive ==
    /\ \A r \in Rounds, l \in Loaders : ~(InRound(r) /\ InLoad(l))
    /\ \A r, q \in Rounds : (r # q) => ~(InRound(r) /\ InRound(q))
    /\ \A l, k \in Loaders : (l # k) => ~(InLoad(l) /\ InLoad(k))

\* C8: whenever run_miner_allreduce has finished, by returning or by raising, the
\* loading flag of its model_loading_manager is false.
C8_FlagClearAtExit ==
    \A r \in Rounds :
        (role = "miner" /\ has_manager /\ Exited(r)) => ~is_loading

\* A round that set the flag and then raised has ended with the flag clear.
C8_RaisedWithFlagClear ==
    \E r \in Rounds :
        /\ role = "miner"
        /\ has_manager
        /\ Exited(r)
        /\ rounds[r].result = "raised"
        /\ ~is_loading

\* C9: _validate_weight_update raises ModelStateError when the sample after the
\* outer step is identical to the one before it, and when more than one sampled
\* value is not-a-number; otherwise it succeeds.
C9_ValidationContract ==
    [][\A r \in Rounds :
          (rounds[r].pc = "validate" /\ rounds'[r].pc # "validate") =>
              LET before == rounds[r].initial_weights
                  after == weights
                  outcome == rounds'[r].validation
              IN  /\ (after = before) => (outcome = "ModelStateError")
                  /\ (NanCount(after) > 1) => (outcome = "ModelStateError")
                  /\ (after # before /\ NanCount(after) <= 1) => (outcome = "True")]_vars

(***************************************************************************)
(* Claims about calculate_allreduce_scores (SpecScores).                   *)
(***************************************************************************)
Statuses == {"SUCCESS", "WRONG_MODE", "FAIL", "NON_PARTICIPATING"}

Bucket(st) == {str_uid \in DOMAIN all_reduce_scores : all_reduce_scores[str_uid] = st}

\* C10: for every input, the call gives each of the 256 UIDs exactly one status
\* of the four and exactly one score under its stringified UID, and the sizes of
\* the four status buckets sum to 256.
C10_EveryUidOneStatusOneScore ==
    (sc_pc \in {"returned", "raised"}) =>
        /\ sc_pc = "returned"
        /\ Cardinality(StrUids) = NumUids
        /\ DOMAIN scores = StrUids
        /\ DOMAIN all_reduce_scores = StrUids
        /\ \A str_uid \in StrUids : all_reduce_scores[str_uid] \in Statuses
        /\ Cardinality(Bucket("SUCCESS")) + Cardinality(Bucket("WRONG_MODE")) +
               Cardinality(Bucket("FAIL")) + Cardinality(Bucket("NON_PARTICIPATING")) =
               NumUids

\* The UIDs of the participating list, of the failed list, and the UIDs whose
\* recorded mode (that of the last participating peer mapped to them) is the
\* client-mode sentinel.
ParticipatingUids == Elements(participating_uids) \cap UIDs

FailedUids == Elements(failed_uids) \cap UIDs

ClientUids ==
    {uid \in ParticipatingUids :
        modes # None /\ uid_modes[uid] = "AveragingMode.CLIENT"}

\* a score <<n, d>> lies in [1.0, 1.5]
InBonusRange(score) == score[2] <= score[1] /\ 2 * score[1] <= 3 * score[2]

\* C11: when a call with a bandwidth list ends, every participating, non-failed,
\* non-client-mode UID with bandwidth b has the score 1.0 + 0.5 * (b / b_max),
\* b_max the largest bandwidth of the list, and that score lies in [1.0, 1.5].
C11_BonusScoreInRange ==
    (sc_pc \in {"returned", "raised"} /\ has_event /\ bandwidths # None) =>
        \A uid \in (ParticipatingUids \ FailedUids) \ ClientUids :
            /\ sc_pc = "returned"
            /\ scores[StrUid(uid)] =
                   Frac(2 * max_bandwidth + uid_bandwidths[uid], 2 * max_bandwidth)
            /\ InBonusRange(scores[StrUid(uid)])

RunTag(name) == SameRun(name) /\ IsDecimal(split(name)[2])

EpochOf(name) == int(split(name)[2])

\* the tags the claim has deleted before "<run>.<e>.<s>" is created
Superseded(name, e, s) ==
    \/ name = NoneTag
    \/ RunTag(name) /\ EpochOf(name) > e
    \/ name = TagName(e, s)

\* the deletion loop of an attempt for the tag "<run>.<e>.<s>" ends, or its
\* create_tag call succeeds
TagLifecycle(e, s) ==
    /\ (up_pc = "tags" /\ up_pc' = "create") =>
           \A name \in tags : Superseded(name, e, s) => name \notin tags'
    /\ (up_pc = "create" /\ up_result' = "True") =>
           /\ \A name \in tags : ~Superseded(name, e, s)
           /\ tags' = tags \cup {TagName(e, s)}
    /\ \A name \in tags \ tags' : ~(RunTag(name) /\ EpochOf(name) < e)

OnePerEpoch(held) ==
    \A a, b \in held :
        (RunTag(a) /\ RunTag(b) /\ EpochOf(a) = EpochOf(b)) => a = b

\* C15: no step of upload_model takes a repository that holds at most one tag per
\* epoch of the run to one that holds two tags for one epoch.
C15_OneTagPerEpoch ==
    [][OnePerEpoch(tags) => OnePerEpoch(tags')]_vars

\* C16: the delay is slept after each failed attempt but the last; a call whose
\* repository exists, whose training stays active and whose attempts all fail ends
\* by raising the error of its third attempt, after three attempts and two delays
\* of 6 seconds.
C16_ThreeAttemptsThenRaise ==
    /\ attempt <= model_upload_retry_limit
    /\ slept = [i \in 1..(IF attempt < model_upload_retry_limit
                          THEN attempt ELSE model_upload_retry_limit - 1) |->
                   model_upload_retry_delay]
    /\ (/\ current_upload_future = "done"
        /\ training_active
        /\ repo
        /\ up_result # "True") =>
           /\ up_result = "raised"
           /\ attempt = 3
           /\ slept = <<6, 6>>
           /\ up_exc = 3

\* a call has raised after its third attempt failed
C16_RetriesExhausted ==
    /\ current_upload_future = "done"
    /\ up_result = "raised"
    /\ attempt = model_upload_retry_limit
    /\ up_exc = model_upload_retry_limit

\* C17 as stated: a call that begins with the training-active flag clear calls no
\* function of the hosting service and returns False.
C17_PausedUploadCallsNothing ==
    (active_at_entry = "clear") =>
        /\ hub_calls = {}
        /\ up_result \in {"none", "False"}

\* C17, amended: a call that begins with the training-active flag clear checks that
\* the repository exists, creates it when it does not, and then returns False at
\* the head of its first attempt: it makes no attempt and calls none of
\* upload_folder, list_repo_refs, delete_tag and create_tag.  It raises instead
\* when create_repo raises.
C17_PausedUploadOnlyChecksRepo ==
    (active_at_entry = "clear") =>
        /\ "repo_exists" \in hub_calls
        /\ hub_calls \subseteq {"repo_exists", "create_repo"}
        /\ ("create_repo" \in hub_calls) => (repo \/ up_result = "raised")
        /\ attempt = 0
        /\ up_pc \in {"attempt", "idle"}
        /\ (up_pc = "idle") =>
               \/ up_result = "False"
               \/ up_result = "raised" /\ ~repo

\* a call that began with the flag clear has created the repository and returned
\* False
C17_PausedUploadReturnedFalse ==
    /\ active_at_entry = "clear"
    /\ up_result = "False"
    /\ hub_calls = {"repo_exists", "create_repo"}

C19_NoUploadDuringRound ==
    \A h \in Requests :
        (ar_pc[h] \in {"inner", "call"}) => (up_pc \notin {"save", "push", "tags", "create"})

(***************************************************************************)
(* Claims about the serialisation of Miner.all_reduce (SpecMiner).         *)
(***************************************************************************)
\* the request is inside "async with self.training_lock": from the cancellation
\* of the upload, over the pause, the inner optimizer step and the delegated
\* round, to the release of the lock
InsideLock(h) ==
    ar_pc[h] \in {"cancel", "pause", "paused", "inner", "call", "inner_except",
                  "unlock", "outer_except"}

\* C20: at most one request of Miner.all_reduce is between acquiring the lock and
\* releasing it (pause, flushing inner optimizer step, delegated round), and that
\* request holds training_lock.
C20_OneRequestInsideLock ==
    \A g, h \in Requests :
        InsideLock(h) => (training_lock = h /\ (InsideLock(g) => g = h))

\* a later request is at its delegated round, holding the lock, after an earlier
\* one has returned
C20_SecondRequestInside ==
    \E g, h \in Requests :
        /\ g # h
        /\ ar_pc[g] = "done"
        /\ ar_pc[h] = "call"
        /\ training_lock = h

(***************************************************************************)
(* Claims about Miner._training_worker (SpecMiner).                        *)
(***************************************************************************)

\* C21: when an iteration of the training worker loop has raised, the worker
\* finishes with training_status ERROR and training_error holding the message.
C21_ErrorStatusAfterFailedIteration ==
    [][(worker_pc = "final" /\ worker_pc' = "none" /\ training_error = "error")
          => (training_status' = "ERROR" /\ training_error' = "error")]_vars

(***************************************************************************)
(* Claims about ttl_cache and ttl_get_block (SpecCache).                   *)
(***************************************************************************)
Called == last_call.outcome # "none"

\* the last call ran the wrapped function
Recomputed == ~last_call.hit /\ last_invoked[last_call.args] = last_call.at

\* C22: under ttl_cache(ttl=T), a repeated call with the same argument made less
\* than T seconds after the first call that returned is served from the cache.
C22_CachedWithinTtlOfFirstCall ==
    (/\ Called
     /\ cache_args.maxsize = DefaultMaxsize
     /\ cache_args.ttl > 0
     /\ last_call.first >= 0
     /\ last_call.at - last_call.first < cache_args.ttl)
        => (last_call.hit /\ last_call.outcome = "returned")

\* C23: under ttl_cache(ttl=T), a call made more than T seconds after the call
\* that produced the cached value runs the wrapped function again, and a value
\* served from the cache was computed at most T seconds before.
C23_RecomputedAfterTtl ==
    (Called /\ cache_args.ttl > 0) =>
        /\ (last_call.computed >= 0 /\ last_call.at - last_call.computed > cache_args.ttl)
              => Recomputed
        /\ last_call.hit => (/\ last_call.value = last_call.computed
                             /\ last_call.at - last_call.value <= cache_args.ttl)

C23_ExpiredValueRecomputed ==
    /\ Called
    /\ cache_args.ttl > 0
    /\ last_call.computed >= 0
    /\ last_call.at - last_call.computed > cache_args.ttl
    /\ Recomputed
    /\ last_call.outcome = "returned"
    /\ last_call.value = last_call.at

\* C24: two reads of subtensor.get_current_block made through ttl_get_block for
\* the same neuron instance are at least 12 seconds apart.
C24_ReadsTwelveSecondsApart ==
    (/\ Called
     /\ cache_args = [maxsize |-> BlockMaxsize, ttl |-> BlockTtl]
     /\ Recomputed
     /\ last_call.invoked >= 0)
        => (last_call.at - last_call.invoked >= BlockTtl)

(***************************************************************************)
(* Claims about score_uid (SpecReward).                                    *)
(***************************************************************************)

\* C25: when fetching the data of a block or replaying it raises, score_uid
\* returns a tensor wrapping exactly 1.0 and no exception leaves the call.
C25_ReplayFailureGivesFullReward ==
    (su_cause # "none") =>
        /\ su_pc \in {"except", "done"}
        /\ (su_pc = "done") =>
              /\ su_result = [shape |-> "tensor", value |-> <<One>>]
              /\ su_exc = "none"

C25_RaisedPartwayThroughBlocks ==
    /\ su_pc = "done"
    /\ su_cause = "step"
    /\ block_idx > 1
    /\ block_idx <= Len(blocks)
    /\ su_result = [shape |-> "tensor", value |-> <<One>>]

\* C26: score_uid replays the block list saved in the latest commit on a model
\* loaded from the second-latest commit and scores it against the model of the
\* latest commit.
C26_ReplaysLatestBlocksOnOlderModel ==
    (su_pc = "done" /\ su_result.shape = "tuple") =>
        /\ blocks = commits[1].block_list
        /\ model = [revision |-> commits[2].commit_id, replayed |-> commits[1].block_list]
        /\ model_final = commits[1].commit_id

(***************************************************************************)
(* Claims about Miner.fetch_training_data (SpecFetch).                     *)
(***************************************************************************)
GotDataset ==
    /\ fd_result = [shape |-> "dataset", offset |-> current_block, try |-> fd_tries]
    /\ fd_exc = NoError
    /\ fd_attempt = fd_tries - 1

RaisedLast ==
    /\ fd_result = [shape |-> "none"]
    /\ fd_exc = fd_error
    /\ fd_exc.try = retry_limit
    /\ fd_tries = retry_limit
    /\ fd_attempt = retry_limit

Known == \E i \in 1..Len(metagraph) : metagraph[i].hotkey = caller

\* the stake of the first UID whose axon has the caller's hotkey
StakeOfCaller ==
    metagraph[CHOOSE i \in 1..Len(metagraph) :
                 /\ metagraph[i].hotkey = caller
                 /\ \A j \in 1..(i - 1) : metagraph[j].hotkey # caller].stake

LowStakeRejected ==
    /\ Known
    /\ force_validator_permit
    /\ ~allow_non_registered
    /\ StakeOfCaller < vpermit_tao_limit

\* C28: blacklist_base returns a (blacklisted, reason) pair; it rejects a caller
\* whose hotkey matches no axon, rejects a known caller of stake below
\* vpermit_tao_limit when force_validator_permit is set and allow_non_registered
\* is not, and accepts every other known caller.
C28_BlacklistDecision ==
    (bl_result # <<>>) =>
        /\ Len(bl_result) = 2
        /\ bl_result[1] \in BOOLEAN
        /\ bl_result[1] = (~Known \/ LowStakeRejected)

C28_LowStakeCallerRejected ==
    /\ bl_result # <<>>
    /\ LowStakeRejected
    /\ bl_result = <<TRUE, "Blacklisted a low stake request">>

(***************************************************************************)
(* Claims about pausing (SpecMiner).                                       *)
(***************************************************************************)

\* pause_training has returned inside a request and resume_training was not
\* called since
PausedByHandler ==
    /\ ~training_active
    /\ \E h \in Requests : ar_pc[h] \notin {"idle", "lock", "cancel", "pause", "paused"}

\* C29: from the return of pause_training inside all_reduce until
\* resume_training, the worker thread takes no forward/backward pass and no inner
\* optimizer step.
C29_NoTrainingStepWhilePaused ==
    [][PausedByHandler =>
          /\ (worker_pc = "fwd") => (worker_pc' = "fwd")
          /\ (worker_pc = "inner") => (worker_pc' = "inner")]_vars

(***************************************************************************)
(* Claims about the order of a validator-side round (SpecAvg).             *)
(***************************************************************************)
BeforeOuter == {"idle", "clip", "start", "send", "await", "sample"}

\* C30: in run_validator_allreduce the averaging step is started before the
\* RPCs are sent and awaited only after they have completed; the outer optimizer
\* step runs at most once per round, only after an averaging result that is not
\* None, and after the weight sample was taken.
C30_ValidatorRoundOrder ==
    /\ [](role = "validator" =>
            \A r \in Rounds :
               /\ (rounds[r].pc \in {"send", "await"})
                     => (rounds[r].grad_averager_step = "pending")
               /\ (rounds[r].fail \in {"clip", "start"})
                     => (rounds[r].grad_averager_step = "None")
               /\ (rounds[r].fail = "query")
                     => (rounds[r].grad_averager_step \in {"pending", "cancelled"})
               /\ (rounds[r].pc = "outer")
                     => (/\ rounds[r].grad_averager_step = "done"
                         /\ rounds[r].averaging_result # <<>>
                         /\ rounds[r].initial_weights = weights))
    /\ [][(role = "validator" /\ weights' # weights)
             => \E r \in Rounds :
                   rounds[r].pc = "outer" /\ rounds'[r].pc \in {"validate", "except"}]_vars
    /\ [][\A r \in Rounds :
             (role = "validator" /\ rounds[r].pc \notin BeforeOuter)
                => (rounds'[r].pc \notin BeforeOuter \cup {"outer"})]_vars

C30_OuterStepAfterResult ==
    /\ role = "validator"
    /\ \E r \in Rounds :
          /\ rounds[r].pc = "validate"
          /\ rounds[r].grad_averager_step = "done"
          /\ rounds[r].averaging_result # <<>>
          /\ rounds[r].initial_weights # weights

(***************************************************************************)
(* Claims about Miner._sync_with_global_model (SpecSync).                  *)
(***************************************************************************)
\* What the sync decides: a peer load and an upload request for (global epoch, 0)
\* exactly when the local checkpoint does not match the global one.
SyncDecision ==
    [][(sync_pc = "ready" /\ sync_pc' = "done") =>
          IF should_sync_model
          THEN /\ peer_loaded'
               /\ current_upload_future' = "pending"
               /\ upload_args' = [epoch |-> global_epoch, inner_step |-> 0]
          ELSE /\ ~peer_loaded'
               /\ UNCHANGED <<current_upload_future, upload_args>>]_vars

\* C31: when the local epoch is absent or differs from the global epoch or the
\* schema hashes differ, _sync_with_global_model loads the state from a peer and
\* schedules an upload, and the checkpoint that upload publishes carries the tag
\* "<run>.<global epoch>.0"; when all three match it does neither.
C31_SyncUploadsAtInnerStepZero ==
    /\ SyncDecision
    /\ [][(peer_loaded /\ upload_args = [epoch |-> global_epoch, inner_step |-> 0]
             /\ up_pc = "create" /\ up_result' = "True")
            => tags' = tags \cup {TagName(global_epoch, 0)}]_vars

(***************************************************************************)
(* Claims about DTGradientAverager.use_averaged_gradients (SpecGrad).      *)
(***************************************************************************)
\* the gradient of p is the averaged gradient of p, on the device of p
BoundToAveraged(p) ==
    /\ param_grad[p] \in {Tensor("avg", p), Tensor("moved", p)}
    /\ device(param_grad[p], param_device) = param_device[p]
    /\ data[param_grad[p]] = Contents(Tensor("avg", p))

\* the gradient of p is the one it had on entry, with the contents it had
AsOnEntry(p) ==
    /\ param_grad[p] = EntryGrad(p)
    /\ had_grad[p] => data[EntryGrad(p)] = Contents(EntryGrad(p))

\* C32: inside the scope every parameter's gradient is the averaged gradient (as
\* long as the wrapped step has not used it), and after every exit, normal or by an
\* exception, every parameter's gradient is what it was on entry, None included.
C32_AveragedInsideRestoredAfter ==
    /\ uag_pc = "scope" => \A p \in Params \ touched : BoundToAveraged(p)
    /\ uag_pc = "exited" => \A p \in Params : AsOnEntry(p)

\* the wrapped step raised after it dropped the averaged gradient of a parameter
\* that had none on entry, next to a parameter on the accelerator that had one
C32_RestoredAfterStepRaised ==
    /\ uag_pc = "exited"
    /\ uag_exc = "StepError"
    /\ \E p \in touched : ~had_grad[p]
    /\ \E q \in Params : had_grad[q] /\ param_device[q] = "cuda"

(***************************************************************************)
(* Claims about the peers that peerids_to_uids does not know (SpecScores). *)
(***************************************************************************)
\* indices of the participating peers that the mapping knows
MappedIdx ==
    {i \in 1..Len(participating_peers) :
        PeerStr(participating_peers[i]) \in DOMAIN peerids_to_uids}

\* a dict without the key of the unknown peers
Known_(d) == [k \in (DOMAIN d) \ {DefaultUid} |-> d[k]]

\* max(bandwidths) if bandwidths else 1.0, of the bandwidths of the known peers
KnownMaxBandwidth ==
    IF bandwidths # None /\ MappedIdx # {}
    THEN CHOOSE x \in {bandwidths[1][i] : i \in MappedIdx} :
             \A i \in MappedIdx : bandwidths[1][i] <= x
    ELSE 1

\* The scores and statuses the same call returns once the peers that the mapping
\* does not know are taken out of both lists (with their modes and bandwidths).
SameWithoutUnknownPeers ==
    \E p_uids \in {Elements(participating_uids) \ {DefaultUid}},
       f_uids \in {Elements(failed_uids) \ {DefaultUid}},
       u_modes \in {Known_(uid_modes)}, u_bws \in {Known_(uid_bandwidths)},
       max_bw \in {KnownMaxBandwidth} :
        \A uid \in UidChoices :
           /\ ~(max_bw = 0 /\ GetsBonus(uid, p_uids, f_uids, u_modes, u_bws))
           /\ scores[StrUid(uid)] = final_score(uid, p_uids, f_uids, u_modes, u_bws, max_bw)
           /\ all_reduce_scores[StrUid(uid)] = status(uid, p_uids, f_uids, u_modes)

\* C33: a participating or failed peer that peerids_to_uids does not know resolves
\* to a value that is no UID, changes the score and the status of no UID, and is
\* still counted in the peer counts of the event dict.
C33_UnknownPeerChangesNoScore ==
    (sc_pc = "returned") =>
        /\ DefaultUid \notin UIDs
        /\ \A str_uid \in StrUids :
              (UidOf[str_uid] \notin UidChoices) =>
                  /\ scores[str_uid] = Zero
                  /\ all_reduce_scores[str_uid] = "NON_PARTICIPATING"
        /\ SameWithoutUnknownPeers
        /\ event.participating_peers_count = Len(participating_peers)
        /\ event.failed_peers_count = Len(failed_peers)

(***************************************************************************)
(* Claims about local_progress.epoch (SpecMiner).                          *)
(***************************************************************************)
\* C34: local_progress.epoch changes only in the finalization of an all_reduce
\* call whose completion is True, and then by exactly one; the worker's training
\* passes and inner steps, the uploads and the failed rounds leave it alone, so it
\* never decreases.
C34_EpochMovesOnlyOnCompletedRound ==
    [][/\ epoch' >= epoch
       /\ (epoch' # epoch) =>
             /\ epoch' = epoch + 1
             /\ \E h \in Requests :
                   /\ ar_pc[h] = "finally"
                   /\ completion[h] = "True"
                   /\ ar_pc'[h] = "done"]_vars

\* a round failed and was finalized, the worker took an inner step, an upload ran
\* to its end, and the epoch is the one of the construction
C34_EpochKeptThroughFailedRound ==
    /\ \E h \in Requests :
          /\ ar_result[h] = "returned"
          /\ completion[h] = "False"
          /\ epoch = epoch_at_entry[h]
    /\ inner_step > 0
    /\ current_upload_future = "done"

(***************************************************************************)
(* Claims about a validator round that reports failure (SpecAvg).          *)
(***************************************************************************)
\* C35: whenever run_validator_allreduce returns (False, {}), the outer optimizer
\* step was not applied in that round: the parameters are those of before the call.
C35_FailedRoundLeftModelAlone ==
    \A r \in Rounds :
        (/\ role = "validator"
         /\ Exited(r)
         /\ rounds[r].ret = [success |-> "False", results |-> EmptyDict])
            => ~rounds[r].outer_applied

(***************************************************************************)
(* Claims about the upload thread next to the training worker (SpecSync).  *)
(***************************************************************************)
\* C36: the reset of block_list at the end of a successful upload_model discards
\* no block that the worker appended after that upload saved the configuration:
\* the list it empties is the list the uploaded checkpoint holds.
C36_ResetDiscardsOnlyUploadedBlocks ==
    [][(up_pc = "create" /\ up_result' = "True") => block_list_len = saved_blocks]_vars

\* C37: in every upload attempt the commit message built for upload_folder carries
\* the inner step stamped into the saved configuration, and a successful attempt
\* creates its tag with that same step, which is the inner_step argument the
\* caller submitted -- also while the worker takes inner steps during the upload.
C37_OneInnerStepPerUpload ==
    [][/\ (up_pc = "push" /\ up_pc' = "tags") => inner_step = config_inner_step
       /\ (up_pc = "create" /\ up_result' = "True")
             => /\ config_inner_step = upload_args.inner_step
                /\ TagName(upload_args.epoch, upload_args.inner_step) \in tags']_vars

(***************************************************************************)
(* Claims about the training executor and the training status              *)
(* (SpecExecutor).                                                         *)
(***************************************************************************)
\* C38: at most one _training_worker executes at any time: a worker submitted by
\* start_continuous_training leaves the executor's queue only when no worker is
\* executing, one at a time, also when it was submitted while the status was
\* PAUSED, STOPPED or ERROR and an earlier worker had not returned.
C38_WorkerStartsOnlyOnFreeThread ==
    [][workers_queued' < workers_queued
          => /\ worker_pc = "none"
             /\ worker_pc' = "loop"
             /\ workers_queued' = workers_queued - 1]_vars

\* a second worker was submitted while the first one executes, and waits
C38_SecondWorkerWaitsInQueue ==
    /\ workers_queued > 0
    /\ worker_pc \notin {"none", "final"}
    /\ starts_left = MaxExecStarts - 2

=============================================================================
